---- MODULE Spec2Model ----
(***************************************************************************)
(* Connectivity monitoring engine of zooper/ccc: the monitoring scheduler  *)
(* (internal/monitor/scheduler.go, the traceroute-fallback version at      *)
(* lines 410-812), the endpoint and settings tables of internal/storage,   *)
(* and the ASN classifier cache (internal/isp).                            *)
(***************************************************************************)
EXTENDS Integers, Sequences, FiniteSets, TLC

\* ------------------------------------------------------------------ bounds
\* Number of endpoint ids that can ever be generated (registrations).
MaxEndpoints == 3
\* Number of ping cycles that are allowed to complete.
MaxCycles == 3
\* Number of endpoints an administrator deletes.
MaxDeletes == 1
\* Number of rows of the endpoints tables the outage analysis is applied to.
NumRows == 4
\* Classifier.maxCacheSize (10000 in NewClassifier), scaled down.
maxCacheSize == 3
\* Classifier.cacheTTL (24 hours in NewClassifier), in clock ticks.
cacheTTL == 1
\* Clock ticks that pass.
MaxTime == 1
\* ClassifyISP calls that miss the cache.
MaxCalls == 5
\* Addresses given to ClassifyISP: 1..NumAddresses.
NumAddresses == 4
\* The worker count of a parallel cycle (numWorkers := 50), scaled down.
PoolSize == 2
MaxFaultCycles == 2
MaxCleanups == 2
expireDays == 2
MaxDay == 4
NumASNs == 3
NumRegAddresses == 2
\* RateLimiter.burst (200 and 10 in main), scaled down.
burst == 2
\* RateLimiter.rate (100 and 5 tokens per second in main), in token parts
\* per clock tick.
rate == 3
\* RateLimiter.cleanup (5 minutes in NewRateLimiter), in clock ticks.
cleanup == 2
\* Parts of one token: bucket.tokens is a float64, kept here in 1/TokenUnit.
TokenUnit == 2
\* Clock ticks that pass while the limiter is used.
MaxClock == 4
\* Tracer.maxHops (30 in NewScheduler), scaled down.
maxHops == 3

\* ------------------------------------------------------------- value sets
Callers == {1, 2}
Keys == {"k1", "k2"}
ISPs == {"Acme", "Bolt"}
Hops == {"h1", "h2"}
Addresses == 1..MaxEndpoints
NoHop == ""

\* The ISP the classifier names for an address (ClassifyISP is a function of
\* the address while its cache entry or the DNS answer does not change).
ISPOf(ip) == IF ip % 3 = 0 THEN "Bolt" ELSE "Acme"

\* Hop distance reported by traceroute for a hop address (TTL of the reply).
HopNumberOf(h) == IF h = "h1" THEN 1 ELSE 2

\* Outage threshold settings an administrator can store, in hundredths
\* (SetOutageThreshold formats the value with two decimals).
Thresholds == {25, 100}
Unset == -1

VARIABLES
    endpoints,       \* endpoints table: id -> row
    nextId,          \* number of endpoint ids generated so far
    deleted,         \* number of endpoints deleted so far
    events,          \* events table: the rows appended since the running (or
                     \* last) ping cycle began; older rows are left out
    history,         \* uptime_history table, the same window
    threshold,       \* settings row "outage_threshold" (hundredths) or Unset
    outages,         \* Scheduler.outages: map ISP -> bool (a partial function)
    pingCycleCount,  \* Scheduler.pingCycleCount
    pc,              \* position of the pingLoop goroutine
    jobs,            \* runPingCycle's local slice `endpoints` (ListAll's rows),
                     \* the part the loop has not handled yet
    total,           \* len(endpoints) of the running cycle
    oldOutages,      \* runPingCycle's local oldOutages, as last assigned
    upCount,         \* runPingCycle's local upCount
    downCount,       \* runPingCycle's local downCount
    cache,           \* Classifier.cache: address -> entry (a partial function);
                     \* an entry also carries its insertion number, seq
    cacheOrder,      \* Classifier.cacheOrder
    now,             \* the clock read by time.Now(), in ticks
    calls,           \* per caller: position in ClassifyISP, its argument,
                     \* the name it holds or returned, how it was answered
    misses,          \* number of ClassifyISP calls that missed the cache
    lastLookup,      \* address -> time of the last call for it that missed
    lastEvicted,     \* the address last deleted by the eviction loop, or 0
    workers,         \* the worker goroutines of a parallel cycle: per worker
                     \* its position and the endpoint it is probing
    results,         \* the results channel of a parallel cycle
    lastPingTime,    \* Scheduler.lastPingTime, as the number of the cycle
                     \* that set it (0: the zero time)
    outagesCycle,    \* the number of the cycle whose analysis Scheduler.outages
                     \* holds (0: the map NewScheduler left)
    probed,          \* per endpoint id, the last iteration of the loop for it:
                     \* its cycle, the status monitorEndpoint returned, and
                     \* whether UpdateStatus succeeded
    loops,           \* main and the two background loops: main's position,
                     \* the context (cancelled), stopCh (stopClosed), the two
                     \* ticker channels, the positions of pingLoop and
                     \* cleanupLoop, the cycle counter at pingLoop's last call
                     \* of runPingCycle (entry), the number of runCleanup calls
    asnConfig,       \* Classifier.asnConfig: ASN -> [display, allowed]
    allowedReply,    \* the last IsAllowed call: its argument and its result
    lastSeen,        \* endpoints.last_seen: id -> day
    today,           \* the clock of the database, in days
    requests,        \* the Register / AdminAddEndpoint request of each client
                     \* connection: its position, its address and its reply
    buckets,         \* RateLimiter.tokens: key -> [tokens, lastCheck]
    lastClean,       \* RateLimiter.lastClean
    limiterNow,      \* time.Now() as RateLimiter.Allow reads it
    lastAllow,       \* the last Allow call: its key and its result
    allowedNow,      \* per key, the calls allowed since time last advanced
    tracer           \* Tracer.Traceroute: the loop, its hops and its result

schedVars == <<endpoints, nextId, deleted, events, history, threshold, outages,
          pingCycleCount, pc, jobs, total, oldOutages,
          upCount, downCount>>
cacheVars == <<cache, cacheOrder, now, calls, misses, lastLookup, lastEvicted>>
poolVars == <<workers, results>>
stampVars == <<lastPingTime, outagesCycle>>
configVars == <<asnConfig, allowedReply>>
limiterVars == <<buckets, lastClean, limiterNow, lastAllow, allowedNow>>
webVars == <<requests, limiterVars>>
apiVars == <<configVars, lastSeen, today, webVars, tracer>>
vars == <<schedVars, cacheVars, poolVars, stampVars, probed, loops, apiVars>>

dbVars == <<endpoints, nextId, deleted, events, history, threshold>>
cycleVars == <<outages, pingCycleCount, pc, jobs, total, oldOutages,
          upCount, downCount>>

\* ------------------------------------------------------------ small helpers
RECURSIVE SetToSeq(_)
SetToSeq(S) ==
    IF S = {} THEN <<>>
    ELSE LET m == CHOOSE x \in S : \A y \in S : x <= y
         IN <<m>> \o SetToSeq(S \ {m})

\* Any listing of a finite set.
RECURSIVE SetToSeqAny(_)
SetToSeqAny(S) ==
    IF S = {} THEN << >>
    ELSE LET m == CHOOSE x \in S : TRUE
         IN <<m>> \o SetToSeqAny(S \ {m})

\* --------------------------------------------------------------- storage
\* Times: Never is the NULL last_ok, Earlier a time before the scheduler
\* started; the probes of cycle k happen at time Earlier + k.
Never == 0
Earlier == 1
Now == Earlier + pingCycleCount + 1

\* DB.Create storing an empty status: neither the handler's "unknown" nor
\* the default of Create.
NewEndpointNoStatus(ip, isp) ==
    [ipv4 |-> ip, isp |-> isp, status |-> "", lastOk |-> Never,
     monitoredHop |-> NoHop, hopNumber |-> 0, useHop |-> FALSE]

\* DB.Create: a new row; status defaults to "unknown", no monitored hop.
NewEndpoint(ip, isp) ==
    [ipv4 |-> ip, isp |-> isp, status |-> "unknown", lastOk |-> Never,
     monitoredHop |-> NoHop, hopNumber |-> 0, useHop |-> FALSE]

\* DB.FindByIP: the ids of the rows with that address.
FindByIP(ip) == {id \in DOMAIN endpoints : endpoints[id].ipv4 = ip}

\* DB.ListAll: every row, in rowid (insertion) order, each with its id.
ListAll(tbl) ==
    LET ids == SetToSeq(DOMAIN tbl)
    IN [i \in 1..Len(ids) |-> [id |-> ids[i]] @@ tbl[ids[i]]]

\* DB.UpdateStatus without COALESCE: last_ok is set to lastOK, zero or not.
UpdateStatusOverwriting(tbl, id, status, lastOK) ==
    IF id \in DOMAIN tbl
    THEN [tbl EXCEPT ![id].status = status, ![id].lastOk = lastOK]
    ELSE tbl

\* DB.UpdateStatus: UPDATE ... WHERE id = ?; no row, no change. last_ok is
\* set to lastOK unless that is the zero time (COALESCE(?, last_ok)).
UpdateStatus(tbl, id, status, lastOK) ==
    IF id \in DOMAIN tbl
    THEN [tbl EXCEPT ![id].status = status,
                     ![id].lastOk = IF lastOK = Never THEN @ ELSE lastOK]
    ELSE tbl

\* DB.UpdateMonitoredHop writing the hop address only.
UpdateMonitoredHopAddressOnly(tbl, id, hopIP, hopNum) ==
    IF id \in DOMAIN tbl
    THEN [tbl EXCEPT ![id].monitoredHop = hopIP]
    ELSE tbl

\* DB.UpdateMonitoredHop: sets monitored_hop, hop_number and use_hop.
UpdateMonitoredHop(tbl, id, hopIP, hopNum) ==
    IF id \in DOMAIN tbl
    THEN [tbl EXCEPT ![id].monitoredHop = hopIP,
                     ![id].hopNumber = hopNum,
                     ![id].useHop = (hopIP # NoHop)]
    ELSE tbl

\* DB.GetEndpointsByMonitoredHop: rows WHERE monitored_hop = hop, any ISP.
GetEndpointsByMonitoredHop(tbl, hop) ==
    {id \in DOMAIN tbl : tbl[id].monitoredHop = hop}

\* DB.RecordEvent: one row appended (endpoint 0 stands for "no endpoint").
RecordEvent(log, type, isp, id) ==
    Append(log, [type |-> type, isp |-> isp, endpoint |-> id])

\* DB.CleanupOldEvents / DB.CleanupOldHistory with maxAge = 7 days: the rows
\* older than seven days are deleted. Every modelled row was written by the
\* running cycle, so none of them is that old.
CleanupOld(log) == SelectSeq(log, LAMBDA r : TRUE)

\* DB.RecordUptimeSnapshot with the up and down columns exchanged.
RecordUptimeSnapshotSwapped(log, t, u, d) ==
    Append(log, [total |-> t, up |-> d, down |-> u])

\* DB.RecordUptimeSnapshot
RecordUptimeSnapshot(log, t, u, d) ==
    Append(log, [total |-> t, up |-> u, down |-> d])

\* DB.GetOutageThreshold: the stored setting, or the default 0.5.
DefaultOutageThreshold == 50
GetOutageThreshold == IF threshold = Unset THEN DefaultOutageThreshold ELSE threshold

\* ------------------------------------------------------------- scheduler
\* A Go map read: a missing key reads as false.
MapGet(m, k) == k \in DOMAIN m /\ m[k]

\* Scheduler.IsISPOutage
IsISPOutage(isp) == MapGet(outages, isp)

\* Scheduler.HasAnyOutage
HasAnyOutage == \E isp \in DOMAIN outages : outages[isp]

\* DB.GetISPStats: one row per ISP that has endpoints, with the number of
\* its endpoints and of those stored as up and as down.
GetISPStats ==
    [isp \in {endpoints[id].isp : id \in DOMAIN endpoints} |->
        LET rows == {id \in DOMAIN endpoints : endpoints[id].isp = isp}
        IN  [TotalCount |-> Cardinality(rows),
             UpCount    |-> Cardinality({id \in rows : endpoints[id].status = "up"}),
             DownCount  |-> Cardinality({id \in rows : endpoints[id].status = "down"})]]

\* Handler.Dashboard, the likely_outage field of the response: the
\* scheduler's HasAnyOutage, else the fallback over the ISP statistics
\* (DownCount / TotalCount > 0.5, written without division).
likelyOutage ==
    \/ HasAnyOutage
    \/ \E isp \in DOMAIN GetISPStats :
          LET s == GetISPStats[isp]
          IN  s.TotalCount > 0 /\ 2 * s.DownCount > s.TotalCount

\* Pinger.count: the echo requests of one Ping.
PingCount == 3

\* Pinger.Ping succeeding only when every echo request is answered.
PingSuccessOnAllReplies(received) == received = PingCount

\* Pinger.Ping: Success iff at least one packet was received.
PingSuccess(received) == received > 0

\* What the network answers to one monitorEndpoint call: the ping of the
\* target, FindLastRespondingHop of the address, the ping of the found hop.
TraceOutcomes ==
    {[hopIP |-> NoHop, hopNum |-> 0, reached |-> FALSE]} \cup
    {[hopIP |-> h, hopNum |-> HopNumberOf(h), reached |-> r] :
        h \in Hops, r \in BOOLEAN}

\* The probe target when it is always the endpoint's own address.
TargetIPOwnAddress(ep) == [kind |-> "ipv4", addr |-> ep.ipv4]

\* The probe target of monitorEndpoint: the monitored hop in hop-fallback
\* mode, else the endpoint's own address.
TargetIP(ep) ==
    IF ep.useHop /\ ep.monitoredHop # NoHop
    THEN [kind |-> "hop", addr |-> ep.monitoredHop]
    ELSE [kind |-> "ipv4", addr |-> ep.ipv4]

\* The traceroute run after every failed ping, in hop-fallback mode too.
RunsTracerouteInHopMode(ep, pingOK) == ~pingOK

\* monitorEndpoint calls FindLastRespondingHop: the ping of the target failed
\* and the endpoint is not in hop-fallback mode.
RunsTraceroute(ep, pingOK) == ~pingOK /\ ~ep.useHop

\* monitorEndpoint without the traceroute fallback: the ping decides.
monitorEndpointPingOnly(ep, pingOK, trace, hopPingOK) ==
    IF pingOK
    THEN [status |-> "up", lastOK |-> TRUE, setHop |-> FALSE, hop |-> trace]
    ELSE [status |-> "down", lastOK |-> FALSE, setHop |-> FALSE, hop |-> trace]

\* Scheduler.monitorEndpoint: the new status, whether last-ok is refreshed,
\* and the monitored hop it persists (setHop) if it switches to a hop.
monitorEndpoint(ep, pingOK, trace, hopPingOK) ==
    IF pingOK
    THEN [status |-> "up", lastOK |-> TRUE, setHop |-> FALSE, hop |-> trace]
    ELSE IF RunsTraceroute(ep, pingOK)
    THEN IF trace.reached
         THEN [status |-> "up", lastOK |-> TRUE, setHop |-> FALSE, hop |-> trace]
         ELSE IF trace.hopIP # NoHop /\ trace.hopNum > 0
         THEN IF hopPingOK
              THEN [status |-> "up", lastOK |-> TRUE, setHop |-> TRUE, hop |-> trace]
              ELSE [status |-> "down", lastOK |-> FALSE, setHop |-> TRUE, hop |-> trace]
         ELSE [status |-> "down", lastOK |-> FALSE, setHop |-> FALSE, hop |-> trace]
    ELSE [status |-> "down", lastOK |-> FALSE, setHop |-> FALSE, hop |-> trace]

\* StatusEvents without the test oldStatus != status.
StatusEventsNoEdge(log, ep, oldStatus, status) ==
    IF oldStatus # "unknown"
    THEN IF status = "down"
         THEN RecordEvent(log, "down", ep.isp, ep.id)
         ELSE IF status = "up" /\ oldStatus = "down"
         THEN RecordEvent(log, "up", ep.isp, ep.id)
         ELSE log
    ELSE log

\* runPingCycle, "Record status change events": the events table after the
\* result of one endpoint.
StatusEvents(log, ep, oldStatus, status) ==
    IF oldStatus # status /\ oldStatus # "unknown"
    THEN IF status = "down"
         THEN RecordEvent(log, "down", ep.isp, ep.id)
         ELSE IF status = "up" /\ oldStatus = "down"
         THEN RecordEvent(log, "up", ep.isp, ep.id)
         ELSE log
    ELSE log

\* analyzeISPOutages, byISP[isp]
EndpointsOfISP(tbl, isp) == {id \in DOMAIN tbl : tbl[id].isp = isp}

\* analyzeISPOutages, downCount of one ISP
DownCount(tbl, eps) == Cardinality({id \in eps : tbl[id].status = "down"})

\* analyzeISPOutages, sharedHops[hop] of one ISP: one for every endpoint in
\* hop mode on that hop, and one more for each of them that is down.
SharedHops(tbl, eps, hop) ==
    Cardinality({id \in eps : tbl[id].useHop /\ tbl[id].monitoredHop # NoHop
                              /\ tbl[id].monitoredHop = hop})
    + Cardinality({id \in eps : tbl[id].status = "down" /\ tbl[id].useHop
                                /\ tbl[id].monitoredHop # NoHop
                                /\ tbl[id].monitoredHop = hop})

\* float64(downCount)/float64(len(eps)) > 0.5
OverThreshold(dc, n) == 2 * dc > n

\* analyzeISPOutages, "Check if this shared hop is down for all users"
HopAllDown(tbl, hop) ==
    LET hopEndpoints == GetEndpointsByMonitoredHop(tbl, hop)
    IN (\A id \in hopEndpoints : tbl[id].status # "up")
       /\ Cardinality(hopEndpoints) >= 2

\* ISPFlagged without the shared-hop rule.
ISPFlaggedByFractionOnly(tbl, isp) ==
    LET eps == EndpointsOfISP(tbl, isp)
    IN /\ Cardinality(eps) >= 2
       /\ OverThreshold(DownCount(tbl, eps), Cardinality(eps))

\* analyzeISPOutages, the decision taken for one ISP of byISP
ISPFlagged(tbl, isp) ==
    LET eps == EndpointsOfISP(tbl, isp)
    IN /\ Cardinality(eps) >= 2
       /\ \/ OverThreshold(DownCount(tbl, eps), Cardinality(eps))
          \/ \E hop \in Hops : SharedHops(tbl, eps, hop) >= 2 /\ HopAllDown(tbl, hop)

\* Scheduler.analyzeISPOutages: a map holding `true` for every flagged ISP
\* and no entry for the others.
analyzeISPOutages(tbl) ==
    [isp \in {i \in ISPs : ISPFlagged(tbl, i)} |-> TRUE]

\* OutageEvent without the test !wasOutage.
OutageEventEveryCycle(log, isp, was, new) ==
    IF new[isp] THEN RecordEvent(log, "outage", isp, 0) ELSE log

\* runPingCycle, "Record outage/recovery events": the loop body for one ISP
\* of the new map.
OutageEvent(log, isp, was, new) ==
    LET isOutage == new[isp]
        wasOutage == MapGet(was, isp)
    IN IF isOutage /\ ~wasOutage
       THEN RecordEvent(log, "outage", isp, 0)
       ELSE IF ~isOutage /\ wasOutage
       THEN RecordEvent(log, "recovery", isp, 0)
       ELSE log

\* The loop over the new map, in the order `order` (Go map iteration order).
RECURSIVE OutageEvents(_, _, _, _)
OutageEvents(log, order, was, new) ==
    IF order = <<>> THEN log
    ELSE OutageEvents(OutageEvent(log, Head(order), was, new),
                      Tail(order), was, new)

\* Every order in which the keys of a map can be iterated.
Orders(S) == {s \in [1..Cardinality(S) -> S] : \A i, j \in DOMAIN s : i # j => s[i] # s[j]}

\* StoreOutages merging the new map into the old one.
StoreOutagesMerge(was, new) ==
    [isp \in DOMAIN was \cup DOMAIN new |-> MapGet(was, isp) \/ MapGet(new, isp)]

\* The new value of Scheduler.outages at the end of runPingCycle.
StoreOutages(was, new) == new

\* ---------------------------------------------------------------- actions
\* isp.NewClassifier: empty cache and order; no call under way.
NewClassifier ==
    /\ cache = << >>
    /\ cacheOrder = << >>
    /\ now = 0
    /\ calls = [g \in Callers |-> [pc |-> "idle", ip |-> 0, isp |-> "", src |-> "none"]]
    /\ misses = 0
    /\ lastLookup = << >>
    /\ lastEvicted = 0
    /\ asnConfig = << >>
    /\ allowedReply = << >>

\* The database as the server finds it: every stored row was last seen on
\* day 0, the day the server starts.
NewDB ==
    /\ lastSeen = [id \in DOMAIN endpoints |-> 0]
    /\ today = 0

\* NewHandler: no request is being served.
NewHandler ==
    requests = [g \in Callers |-> [pc |-> "idle", kind |-> "", text |-> << >>,
                                   reply |-> << >>]]

\* NewRateLimiter: no bucket.
NewRateLimiter ==
    /\ buckets = << >>
    /\ lastClean = 0
    /\ limiterNow = 0
    /\ lastAllow = << >>
    /\ allowedNow = [k \in Keys |-> 0]

\* NewTracer: no traceroute is under way.
NewTracer ==
    tracer = [pc |-> "idle", ttl |-> 0, hops |-> << >>, replies |-> << >>,
              lastHop |-> << >>, reached |-> FALSE, error |-> FALSE]

\* NewScheduler: no cycle has run, no worker exists.
NewScheduler ==
    /\ outages = << >>
    /\ pingCycleCount = 0
    /\ lastPingTime = 0
    /\ outagesCycle = 0
    /\ workers = << >>
    /\ results = << >>
    /\ probed = << >>
    /\ loops = [main |-> "start", cancelled |-> FALSE, stopClosed |-> FALSE,
                pingTick |-> FALSE, cleanupTick |-> FALSE,
                ping |-> "call", cleanup |-> "select",
                entry |-> 0, cleanups |-> 0]

Init ==
    /\ endpoints = << >>
    /\ nextId = 0
    /\ deleted = 0
    /\ events = << >>
    /\ history = << >>
    /\ threshold = Unset
    /\ pc = "idle"
    /\ jobs = << >>
    /\ total = 0
    /\ oldOutages = << >>
    /\ upCount = 0
    /\ downCount = 0
    /\ NewScheduler
    /\ NewClassifier
    /\ NewDB
    /\ NewHandler
    /\ NewRateLimiter
    /\ NewTracer

\* Handler.Register / Handler.AdminAddEndpoint for an address that is not
\* registered yet: a fresh id, the ISP the classifier (or the admin) names.
Register(ip) ==
    /\ nextId < MaxEndpoints
    /\ FindByIP(ip) = {}
    /\ nextId' = nextId + 1
    /\ endpoints' = (nextId + 1 :> NewEndpoint(ip, ISPOf(ip))) @@ endpoints
    /\ lastSeen' = (nextId + 1 :> today) @@ lastSeen
    /\ UNCHANGED <<deleted, events, history, threshold>>
    /\ UNCHANGED cycleVars
    /\ UNCHANGED <<tracer, configVars, today, webVars, cacheVars, poolVars, stampVars,
                   probed, loops>>

\* Handler.AdminDeleteEndpoint -> DB.DeleteByID
AdminDeleteEndpoint(id) ==
    /\ id \in DOMAIN endpoints
    /\ deleted < MaxDeletes
    /\ deleted' = deleted + 1
    /\ endpoints' = [i \in DOMAIN endpoints \ {id} |-> endpoints[i]]
    /\ lastSeen' = [i \in DOMAIN endpoints \ {id} |-> lastSeen[i]]
    /\ UNCHANGED <<nextId, events, history, threshold>>
    /\ UNCHANGED cycleVars
    /\ UNCHANGED <<tracer, configVars, today, webVars, cacheVars, poolVars, stampVars,
                   probed, loops>>

\* DB.SetOutageThreshold
SetOutageThreshold(t) ==
    /\ t >= 0 /\ t <= 100
    /\ threshold # t
    /\ threshold' = t
    /\ UNCHANGED <<endpoints, nextId, deleted, events, history>>
    /\ UNCHANGED cycleVars
    /\ UNCHANGED <<apiVars, cacheVars, poolVars, stampVars, probed, loops>>

\* runPingCycle up to the loop: ListAll, and the early return on no endpoints.
CycleStart ==
    /\ pc = "idle"
    /\ pingCycleCount < MaxCycles
    /\ IF DOMAIN endpoints = {}
       THEN UNCHANGED vars
       ELSE /\ jobs' = ListAll(endpoints)
            /\ total' = Len(ListAll(endpoints))
            /\ upCount' = 0
            /\ downCount' = 0
            /\ pc' = "probing"
            /\ events' = << >>
            /\ history' = << >>
            /\ UNCHANGED <<outages, oldOutages, pingCycleCount, endpoints, nextId,
                           deleted, threshold>>
            /\ UNCHANGED <<apiVars, cacheVars, poolVars, stampVars, probed, loops>>

\* The endpoints the loop goes on with after a failed write: none.
AbortOnWriteError(rest) == << >>

\* The endpoints the loop goes on with after a failed write: the error is
\* logged and the loop continues.
AfterWriteError(rest) == rest

\* One iteration of runPingCycle's loop: monitorEndpoint (with the hop it
\* may persist), the counters, the status-change event and UpdateStatus.
\* hopWrite, eventWrite and statusWrite tell whether UpdateMonitoredHop,
\* RecordEvent and UpdateStatus succeed.
ProbeStep(pingOK, trace, hopPingOK, hopWrite, eventWrite, statusWrite) ==
    /\ pc = "probing"
    /\ jobs # << >>
    /\ LET ep == Head(jobs)
           r == monitorEndpoint(ep, pingOK, trace, hopPingOK)
           withHop == IF r.setHop /\ hopWrite
                      THEN UpdateMonitoredHop(endpoints, ep.id, trace.hopIP, trace.hopNum)
                      ELSE endpoints
       IN /\ upCount' = IF r.status = "up" THEN upCount + 1 ELSE upCount
          /\ downCount' = IF r.status = "up" THEN downCount ELSE downCount + 1
          /\ events' = IF eventWrite
                       THEN StatusEvents(events, ep, ep.status, r.status)
                       ELSE events
          /\ endpoints' = IF statusWrite
                          THEN UpdateStatus(withHop, ep.id, r.status,
                                            IF r.lastOK THEN Now ELSE Never)
                          ELSE withHop
          /\ jobs' = IF hopWrite /\ eventWrite /\ statusWrite
                     THEN Tail(jobs)
                     ELSE AfterWriteError(Tail(jobs))
    /\ UNCHANGED <<nextId, deleted, history, threshold, outages, oldOutages,
                   pingCycleCount, pc, total>>
    /\ UNCHANGED <<apiVars, cacheVars, poolVars, stampVars>>

\* An iteration of the loop whose writes all succeed.
ProbeEndpoint ==
    /\ \E pingOK \in BOOLEAN, trace \in TraceOutcomes, hopPingOK \in BOOLEAN :
         ProbeStep(pingOK, trace, hopPingOK, TRUE, TRUE, TRUE)
    /\ UNCHANGED <<probed, loops>>

\* runPingCycle after the loop: counter, snapshot, cleanups, outage analysis,
\* outage/recovery events, and the new outage map.
CycleFinish ==
    /\ pc = "probing"
    /\ jobs = << >>
    /\ pingCycleCount' = pingCycleCount + 1
    /\ history' = CleanupOld(RecordUptimeSnapshot(history, total, upCount, downCount))
    /\ oldOutages' = outages
    /\ LET newOutages == analyzeISPOutages(endpoints)
       IN /\ \E order \in Orders(DOMAIN newOutages) :
               events' = OutageEvents(CleanupOld(events), order, outages, newOutages)
          /\ outages' = StoreOutages(outages, newOutages)
    /\ pc' = "idle"
    /\ total' = 0
    /\ upCount' = 0
    /\ downCount' = 0
    /\ lastPingTime' = pingCycleCount + 1
    /\ outagesCycle' = pingCycleCount + 1
    /\ UNCHANGED <<endpoints, nextId, deleted, threshold, jobs>>
    /\ UNCHANGED <<apiVars, cacheVars, poolVars, probed, loops>>

Next ==
    \/ \E ip \in Addresses : Register(ip)
    \/ \E id \in 1..MaxEndpoints : AdminDeleteEndpoint(id)
    \/ CycleStart
    \/ ProbeEndpoint
    \/ CycleFinish

Spec == Init /\ [][Next]_vars

\* ------------------------------------------- a cycle whose writes can fail
\* The traceroute answers of a cycle whose writes can fail: no hop, or the
\* nearest hop, reached or not.
FaultTraces == {t \in TraceOutcomes : t.hopNum <= HopNumberOf("h1")}

\* An iteration of the loop in which UpdateMonitoredHop, RecordEvent and
\* UpdateStatus may each return an error; probed remembers the iteration.
ProbeEndpointFaulty ==
    \E pingOK \in BOOLEAN, trace \in FaultTraces, hopPingOK \in BOOLEAN,
       hopWrite \in BOOLEAN, eventWrite \in BOOLEAN, statusWrite \in BOOLEAN :
         /\ ProbeStep(pingOK, trace, hopPingOK, hopWrite, eventWrite, statusWrite)
         /\ LET ep == Head(jobs)
                r == monitorEndpoint(ep, pingOK, trace, hopPingOK)
                it == [cycle |-> pingCycleCount + 1, status |-> r.status,
                       written |-> statusWrite,
                       failed |-> ~(hopWrite /\ eventWrite /\ statusWrite)]
            IN probed' = [id \in DOMAIN probed \cup {ep.id} |->
                            IF id = ep.id THEN it ELSE probed[id]]
         /\ UNCHANGED loops

\* The tables of one to MaxEndpoints registered endpoints, none probed yet.
FreshTables ==
    {[id \in 1..n |-> NewEndpoint(id, ISPOf(id))] : n \in 1..MaxEndpoints}

InitRegistered ==
    /\ endpoints \in FreshTables
    /\ nextId = Cardinality(DOMAIN endpoints)
    /\ deleted = 0
    /\ events = << >>
    /\ history = << >>
    /\ threshold = Unset
    /\ pc = "idle"
    /\ jobs = << >>
    /\ total = 0
    /\ oldOutages = << >>
    /\ upCount = 0
    /\ downCount = 0
    /\ NewScheduler
    /\ NewClassifier
    /\ NewDB
    /\ NewHandler
    /\ NewRateLimiter
    /\ NewTracer

\* runPingCycle up to the loop, for the first MaxFaultCycles cycles.
FaultyCycleStart ==
    /\ pingCycleCount < MaxFaultCycles
    /\ CycleStart

NextFaults ==
    \/ FaultyCycleStart
    \/ ProbeEndpointFaulty
    \/ CycleFinish

SpecFaults == InitRegistered /\ [][NextFaults]_vars

\* --------------------------------------- cycles with the probes on record
\* An iteration of the loop whose writes all succeed; probed remembers the
\* row the loop was given and what the network answered: the replies to the
\* ping of the target, the traceroute, the replies to the ping of the hop
\* (none or all), with the address that was pinged and whether the traceroute
\* was run.
ProbeEndpointRecorded ==
    \E received \in 0..PingCount, trace \in TraceOutcomes,
       hopReceived \in {0, PingCount} :
         /\ ProbeStep(PingSuccess(received), trace, PingSuccess(hopReceived),
                      TRUE, TRUE, TRUE)
         /\ LET ep == Head(jobs)
            IN probed' = (ep.id :> [cycle |-> pingCycleCount + 1, old |-> ep,
                                    received |-> received, trace |-> trace,
                                    hopReceived |-> hopReceived,
                                    target |-> TargetIP(ep),
                                    traced |-> RunsTraceroute(ep, PingSuccess(received))])
         /\ UNCHANGED loops

NextProbe ==
    \/ FaultyCycleStart
    \/ ProbeEndpointRecorded
    \/ CycleFinish

SpecProbe == InitRegistered /\ [][NextProbe]_vars

\* ----------------------------------------- the background loops and shutdown
\* The rows DB.DeleteExpired finds older than expireDays: none, or one row.
ExpiredChoices == {{}} \cup {{id} : id \in DOMAIN endpoints}

\* Scheduler.runCleanup -> DB.DeleteExpired: the expired rows are deleted.
runCleanup(gone) ==
    /\ loops.cleanups < MaxCleanups
    /\ endpoints' = [i \in DOMAIN endpoints \ gone |-> endpoints[i]]
    /\ lastSeen' = [i \in DOMAIN endpoints \ gone |-> lastSeen[i]]
    /\ UNCHANGED <<nextId, deleted, events, history, threshold>>
    /\ UNCHANGED cycleVars
    /\ UNCHANGED <<tracer, configVars, today, webVars, cacheVars, poolVars, stampVars,
                   probed>>

\* The other variables of a step of main or of a loop's select.
LoopStepOnly ==
    /\ UNCHANGED <<apiVars, schedVars, cacheVars, poolVars, stampVars, probed>>

\* Scheduler.Start, after the two goroutines are started: the initial cleanup.
StartCleanup ==
    /\ loops.main = "start"
    /\ \E gone \in ExpiredChoices : runCleanup(gone)
    /\ loops' = [loops EXCEPT !.main = "serving", !.cleanups = @ + 1]

\* main's shutdown goroutine on SIGINT/SIGTERM: cancel().
Cancel ==
    /\ loops.main = "serving"
    /\ loops' = [loops EXCEPT !.main = "cancelled", !.cancelled = TRUE]
    /\ LoopStepOnly

\* Scheduler.Stop: close(s.stopCh).
Stop ==
    /\ loops.main = "cancelled"
    /\ loops' = [loops EXCEPT !.main = "stopping", !.stopClosed = TRUE]
    /\ LoopStepOnly

\* Scheduler.Stop: s.wg.Wait() returns when both loops have returned.
StopReturns ==
    /\ loops.main = "stopping"
    /\ loops.ping = "returned"
    /\ loops.cleanup = "returned"
    /\ loops' = [loops EXCEPT !.main = "stopped"]
    /\ LoopStepOnly

\* The ticker of pingLoop delivers a tick (its channel holds one tick).
PingTickerFires ==
    /\ loops.ping # "returned"
    /\ ~loops.pingTick
    /\ loops' = [loops EXCEPT !.pingTick = TRUE]
    /\ LoopStepOnly

\* The ticker of cleanupLoop delivers a tick.
CleanupTickerFires ==
    /\ loops.cleanup # "returned"
    /\ ~loops.cleanupTick
    /\ loops' = [loops EXCEPT !.cleanupTick = TRUE]
    /\ LoopStepOnly

\* pingLoop's select takes the case <-ticker.C and calls runPingCycle. Go's
\* select chooses among the ready cases; nothing prefers the closed channels.
PingSelectTick ==
    /\ loops.ping = "select"
    /\ loops.pingTick
    /\ loops' = [loops EXCEPT !.ping = "call", !.pingTick = FALSE,
                              !.entry = pingCycleCount]
    /\ LoopStepOnly

\* pingLoop's select takes <-ctx.Done() or <-s.stopCh and returns.
PingSelectDone ==
    /\ loops.ping = "select"
    /\ loops.cancelled \/ loops.stopClosed
    /\ loops' = [loops EXCEPT !.ping = "returned"]
    /\ LoopStepOnly

\* runPingCycle called by pingLoop, up to its loop.
LoopCycleStart ==
    /\ loops.ping = "call"
    /\ pingCycleCount = loops.entry
    /\ DOMAIN endpoints # {}
    /\ CycleStart

\* runPingCycle called by pingLoop returns early: no endpoints.
LoopCycleSkip ==
    /\ loops.ping = "call"
    /\ pc = "idle"
    /\ pingCycleCount = loops.entry
    /\ DOMAIN endpoints = {}
    /\ loops' = [loops EXCEPT !.ping = "select"]
    /\ LoopStepOnly

\* One iteration of runPingCycle's loop for an endpoint that answers its ping
\* or has no responding hop.
LoopProbe ==
    /\ \E pingOK \in BOOLEAN :
         ProbeStep(pingOK, [hopIP |-> NoHop, hopNum |-> 0, reached |-> FALSE],
                   FALSE, TRUE, TRUE, TRUE)
    /\ UNCHANGED <<probed, loops>>

\* runPingCycle has returned to pingLoop, which goes back to its select.
LoopCycleReturn ==
    /\ loops.ping = "call"
    /\ pc = "idle"
    /\ pingCycleCount = loops.entry + 1
    /\ loops' = [loops EXCEPT !.ping = "select"]
    /\ LoopStepOnly

\* cleanupLoop's select takes the case <-ticker.C and runs runCleanup.
CleanupSelectTick ==
    /\ loops.cleanup = "select"
    /\ loops.cleanupTick
    /\ \E gone \in ExpiredChoices : runCleanup(gone)
    /\ loops' = [loops EXCEPT !.cleanupTick = FALSE, !.cleanups = @ + 1]

\* cleanupLoop's select takes <-ctx.Done() or <-s.stopCh and returns.
CleanupSelectDone ==
    /\ loops.cleanup = "select"
    /\ loops.cancelled \/ loops.stopClosed
    /\ loops' = [loops EXCEPT !.cleanup = "returned"]
    /\ LoopStepOnly

NextLoop ==
    \/ StartCleanup
    \/ Cancel
    \/ Stop
    \/ StopReturns
    \/ PingTickerFires
    \/ CleanupTickerFires
    \/ PingSelectTick
    \/ PingSelectDone
    \/ LoopCycleStart
    \/ LoopCycleSkip
    \/ LoopProbe
    \/ CycleFinish
    \/ LoopCycleReturn
    \/ CleanupSelectTick
    \/ CleanupSelectDone

SpecLoop == InitRegistered /\ [][NextLoop]_vars

\* ------------------------------ the end of a cycle, one locked write at a time
\* runPingCycle after the loop: s.lastPingTime under lastPingMu.
FinishStamp ==
    /\ pc = "probing"
    /\ jobs = << >>
    /\ lastPingTime' = pingCycleCount + 1
    /\ pc' = "stamped"
    /\ UNCHANGED <<endpoints, nextId, deleted, events, history, threshold,
                   outages, pingCycleCount, jobs, total, oldOutages,
                   upCount, downCount, outagesCycle>>
    /\ UNCHANGED <<apiVars, cacheVars, poolVars, probed, loops>>

\* runPingCycle after the loop: s.pingCycleCount++ under pingCycleMu.
FinishCount ==
    /\ pc = "stamped"
    /\ pingCycleCount' = pingCycleCount + 1
    /\ pc' = "counted"
    /\ UNCHANGED <<endpoints, nextId, deleted, events, history, threshold,
                   outages, jobs, total, oldOutages, upCount, downCount>>
    /\ UNCHANGED <<apiVars, cacheVars, poolVars, stampVars, probed, loops>>

\* runPingCycle after the loop: the uptime snapshot and the two cleanups.
FinishSnapshot ==
    /\ pc = "counted"
    /\ history' = CleanupOld(RecordUptimeSnapshot(history, total, upCount, downCount))
    /\ events' = CleanupOld(events)
    /\ pc' = "recorded"
    /\ UNCHANGED <<endpoints, nextId, deleted, threshold, outages,
                   pingCycleCount, jobs, total, oldOutages, upCount, downCount>>
    /\ UNCHANGED <<apiVars, cacheVars, poolVars, stampVars, probed, loops>>

\* runPingCycle after the loop: the outage analysis, the outage/recovery
\* events, and s.outages under outagesMu.
FinishOutages ==
    /\ pc = "recorded"
    /\ oldOutages' = outages
    /\ LET newOutages == analyzeISPOutages(endpoints)
       IN /\ \E order \in Orders(DOMAIN newOutages) :
               events' = OutageEvents(events, order, outages, newOutages)
          /\ outages' = StoreOutages(outages, newOutages)
    /\ outagesCycle' = pingCycleCount
    /\ pc' = "idle"
    /\ total' = 0
    /\ upCount' = 0
    /\ downCount' = 0
    /\ UNCHANGED <<endpoints, nextId, deleted, history, threshold,
                   pingCycleCount, jobs, lastPingTime>>
    /\ UNCHANGED <<apiVars, cacheVars, poolVars, probed, loops>>

NextStamps ==
    \/ FaultyCycleStart
    \/ LoopProbe
    \/ FinishStamp
    \/ FinishCount
    \/ FinishSnapshot
    \/ FinishOutages

SpecStamps == InitRegistered /\ [][NextStamps]_vars

\* -------------------------------------- the outage analysis on any table
\* The shapes a stored row can have when the loop of a cycle has ended: not
\* probed yet, or up/down in direct mode, or up/down on a monitored hop.
RowShapes ==
    {[status |-> "unknown", lastOk |-> Never,
      monitoredHop |-> NoHop, hopNumber |-> 0, useHop |-> FALSE]}
    \cup {[status |-> st, lastOk |-> IF st = "up" THEN Earlier ELSE Never,
           monitoredHop |-> NoHop, hopNumber |-> 0, useHop |-> FALSE] :
             st \in {"up", "down"}}
    \cup {[status |-> st, lastOk |-> IF st = "up" THEN Earlier ELSE Never,
           monitoredHop |-> h, hopNumber |-> HopNumberOf(h), useHop |-> TRUE] :
             st \in {"up", "down"}, h \in Hops}

\* The row kinds (ISP and shape), numbered, to list each table once: the
\* analysis groups and counts rows, their order in the table changes nothing.
RowKinds == SetToSeqAny({[isp |-> i, shape |-> sh] : i \in ISPs, sh \in RowShapes})

\* The endpoints tables of NumRows rows.
Tables ==
    {[id \in 1..NumRows |->
         [ipv4 |-> id, isp |-> RowKinds[f[id]].isp] @@ RowKinds[f[id]].shape] :
       f \in {g \in [1..NumRows -> 1..Len(RowKinds)] :
                 \A i \in 1..(NumRows - 1) : g[i] <= g[i + 1]}}

\* The end of the loop of a first ping cycle over a stored table.
InitAnalysis ==
    /\ endpoints \in Tables
    /\ nextId = NumRows
    /\ deleted = 0
    /\ events = << >>
    /\ history = << >>
    /\ threshold = Unset
    /\ oldOutages = << >>
    /\ pc = "probing"
    /\ jobs = << >>
    /\ total = NumRows
    /\ upCount = Cardinality({id \in DOMAIN endpoints : endpoints[id].status = "up"})
    /\ downCount = NumRows - upCount
    /\ NewScheduler
    /\ NewClassifier
    /\ NewDB
    /\ NewHandler
    /\ NewRateLimiter
    /\ NewTracer

NextAnalysis ==
    \/ \E t \in Thresholds : SetOutageThreshold(t)
    \/ CycleFinish

SpecAnalysis == InitAnalysis /\ [][NextAnalysis]_vars

\* ------------------------------------------------ the parallel ping cycle
\* A worker per endpoint, without the cap.
NumWorkersPerEndpoint(n) == n

\* runPingCycle's worker count: the pool size, or fewer for fewer endpoints.
NumWorkers(n) == IF PoolSize > n THEN n ELSE PoolSize

\* monitorEndpoint of the parallel cycle: a direct ping only.
monitorEndpointDirect(pingOK) == IF pingOK THEN "up" ELSE "unreachable"

\* The endpoints tables the parallel cycle can find in the database: every
\* status the events code of its collecting loop tells apart.
PoolTables ==
    UNION {{[id \in 1..n |->
                [NewEndpoint(id, ISPOf(id)) EXCEPT
                    !.status = st[id],
                    !.lastOk = IF st[id] \in {"up", "down"} THEN Earlier ELSE Never]] :
               st \in [1..n -> {"unknown", "up", "down", "unreachable"}]} :
             n \in 1..MaxEndpoints}

InitPool ==
    /\ endpoints \in PoolTables
    /\ nextId = Cardinality(DOMAIN endpoints)
    /\ deleted = 0
    /\ events = << >>
    /\ history = << >>
    /\ threshold = Unset
    /\ pc = "idle"
    /\ jobs = << >>
    /\ total = 0
    /\ oldOutages = << >>
    /\ upCount = 0
    /\ downCount = 0
    /\ NewScheduler
    /\ NewClassifier
    /\ NewDB
    /\ NewHandler
    /\ NewRateLimiter
    /\ NewTracer

\* runPingCycle up to the collecting loop: ListAll, the early return, the
\* workers started, every endpoint sent on the jobs channel, which is closed.
PoolCycleStart ==
    /\ pc = "idle"
    /\ pingCycleCount < MaxCycles
    /\ IF DOMAIN endpoints = {}
       THEN UNCHANGED vars
       ELSE /\ jobs' = ListAll(endpoints)
            /\ total' = Len(ListAll(endpoints))
            /\ workers' = [w \in 1..NumWorkers(Len(ListAll(endpoints))) |->
                              [st |-> "waiting", job |-> << >>]]
            /\ results' = << >>
            /\ upCount' = 0
            /\ downCount' = 0
            /\ pc' = "collecting"
            /\ events' = << >>
            /\ history' = << >>
            /\ UNCHANGED <<outages, oldOutages, pingCycleCount, endpoints, nextId,
                           deleted, threshold>>
            /\ UNCHANGED <<apiVars, cacheVars, stampVars, probed, loops>>

\* A worker reads the head of the jobs channel and leaves it there.
WorkerTakePeek(w) ==
    /\ w \in DOMAIN workers
    /\ workers[w].st = "waiting"
    /\ jobs # << >>
    /\ workers' = [workers EXCEPT ![w] = [st |-> "probing", job |-> <<Head(jobs)>>]]
    /\ UNCHANGED schedVars
    /\ UNCHANGED <<apiVars, cacheVars, stampVars, results, probed, loops>>

\* A worker receives an endpoint from the jobs channel.
WorkerTake(w) ==
    /\ w \in DOMAIN workers
    /\ workers[w].st = "waiting"
    /\ jobs # << >>
    /\ workers' = [workers EXCEPT ![w] = [st |-> "probing", job |-> <<Head(jobs)>>]]
    /\ jobs' = Tail(jobs)
    /\ UNCHANGED <<endpoints, nextId, deleted, events, history, threshold, outages,
                   pingCycleCount, pc, total, oldOutages, upCount, downCount>>
    /\ UNCHANGED <<apiVars, cacheVars, stampVars, results, probed, loops>>

\* A results channel with no room for a result.
ResultsCapNone(n) == 0

\* make(chan pingResult, len(endpoints)): the capacity of the results channel.
ResultsCap(n) == n

\* A worker's monitorEndpoint returns and its result is sent, which needs room
\* in the results channel.
WorkerProbe(w) ==
    /\ w \in DOMAIN workers
    /\ workers[w].st = "probing"
    /\ Len(results) < ResultsCap(total)
    /\ \E pingOK \in BOOLEAN :
         LET ep == workers[w].job[1]
         IN results' = Append(results, [endpoint |-> ep, oldStatus |-> ep.status,
                                        newStatus |-> monitorEndpointDirect(pingOK),
                                        lastOK |-> IF pingOK THEN Now ELSE Never])
    /\ workers' = [workers EXCEPT ![w] = [st |-> "waiting", job |-> << >>]]
    /\ UNCHANGED schedVars
    /\ UNCHANGED <<apiVars, cacheVars, stampVars, probed, loops>>

\* A worker finds the jobs channel closed and empty, and ends.
WorkerExit(w) ==
    /\ w \in DOMAIN workers
    /\ workers[w].st = "waiting"
    /\ jobs = << >>
    /\ workers' = [workers EXCEPT ![w].st = "done"]
    /\ UNCHANGED schedVars
    /\ UNCHANGED <<apiVars, cacheVars, stampVars, results, probed, loops>>

\* One iteration of the collecting loop: the counters, the status-change
\* event and UpdateStatus for the next result of the channel.
Collect ==
    /\ pc = "collecting"
    /\ results # << >>
    /\ LET r == Head(results)
       IN /\ upCount' = IF r.newStatus = "up" THEN upCount + 1 ELSE upCount
          /\ downCount' = IF r.newStatus = "up" THEN downCount ELSE downCount + 1
          /\ events' = StatusEvents(events, r.endpoint, r.oldStatus, r.newStatus)
          /\ endpoints' = UpdateStatus(endpoints, r.endpoint.id, r.newStatus, r.lastOK)
    /\ results' = Tail(results)
    /\ UNCHANGED <<nextId, deleted, history, threshold, outages, oldOutages,
                   pingCycleCount, pc, total, jobs>>
    /\ UNCHANGED <<apiVars, cacheVars, stampVars, workers, probed, loops>>

\* The results channel has nothing to receive at the moment.
ResultsDrained == results = << >>

\* The results channel is closed: every worker has ended (workerWg.Wait).
ResultsClosed == \A w \in DOMAIN workers : workers[w].st = "done"

\* runPingCycle after the collecting loop, which ends when the results
\* channel is closed and empty.
PoolCycleFinish ==
    /\ pc = "collecting"
    /\ results = << >>
    /\ ResultsClosed
    /\ pingCycleCount' = pingCycleCount + 1
    /\ history' = CleanupOld(RecordUptimeSnapshot(history, total, upCount, downCount))
    /\ oldOutages' = outages
    /\ LET newOutages == analyzeISPOutages(endpoints)
       IN /\ \E order \in Orders(DOMAIN newOutages) :
               events' = OutageEvents(CleanupOld(events), order, outages, newOutages)
          /\ outages' = StoreOutages(outages, newOutages)
    /\ pc' = "idle"
    /\ total' = 0
    /\ upCount' = 0
    /\ downCount' = 0
    /\ workers' = << >>
    /\ lastPingTime' = pingCycleCount + 1
    /\ outagesCycle' = pingCycleCount + 1
    /\ UNCHANGED <<endpoints, nextId, deleted, threshold, jobs, results>>
    /\ UNCHANGED <<apiVars, cacheVars, probed, loops>>

NextPool ==
    \/ PoolCycleStart
    \/ \E w \in 1..MaxEndpoints : WorkerTake(w)
    \/ \E w \in 1..MaxEndpoints : WorkerProbe(w)
    \/ \E w \in 1..MaxEndpoints : WorkerExit(w)
    \/ Collect
    \/ PoolCycleFinish

SpecPool == InitPool /\ [][NextPool]_vars

\* The goroutines of a cycle keep running: a worker that can receive, send
\* or end does so, every probe returns (it is bounded by its timeout), and
\* the collecting loop goes on while it can.
PoolFairness ==
    /\ \A w \in 1..MaxEndpoints :
          /\ WF_vars(WorkerTake(w))
          /\ WF_vars(WorkerProbe(w))
          /\ WF_vars(WorkerExit(w))
    /\ WF_vars(Collect)
    /\ WF_vars(PoolCycleFinish)

SpecPoolLive == InitPool /\ [][NextPool]_vars /\ PoolFairness

\* ------------------------------------------------------- the classifier
CacheAddresses == 1..NumAddresses

\* What the DNS holds for an address, which the two queries of a miss read:
\* a configured ASN (addresses 1 and 2), an ASN that is not configured and
\* whose organisation LookupASNInfo finds (3) or does not find (4).
ASNKindOf(ip) ==
    IF ip <= 2 THEN "configured" ELSE IF ip = 3 THEN "org" ELSE "noOrg"

\* What LookupASN can yield: an error (the query fails, the record is
\* malformed), no ASN (0), or the ASN.
LookupOutcomes == {"error", "zero", "found"}

\* The name ClassifyISP settles on after a LookupASN that found the ASN:
\* the configured display name, the cleaned organisation name, or "Unknown".
ResolveName(ip) ==
    IF ASNKindOf(ip) = "configured" THEN ISPOf(ip)
    ELSE IF ASNKindOf(ip) = "org" THEN "Org"
    ELSE "Unknown"

\* ClassifyISP's cache check, without the expiry test.
CacheHitIgnoringExpiry(ip) == ip \in DOMAIN cache

\* ClassifyISP's cache check: an entry that has not expired.
CacheHit(ip) == ip \in DOMAIN cache /\ now < cache[ip].expiresAt

\* The eviction loop's condition with > for >=.
EvictionNeededWhenOver(c, order) ==
    Cardinality(DOMAIN c) > maxCacheSize /\ Len(order) > 0

\* The eviction loop's condition.
EvictionNeeded(c, order) ==
    Cardinality(DOMAIN c) >= maxCacheSize /\ Len(order) > 0

\* The eviction loop: drop the head of the order and delete its key, until
\* the condition fails; ev is the last key the loop really deleted.
RECURSIVE Evict(_, _, _)
Evict(c, order, ev) ==
    IF EvictionNeeded(c, order)
    THEN Evict([a \in DOMAIN c \ {Head(order)} |-> c[a]], Tail(order),
               IF Head(order) \in DOMAIN c THEN Head(order) ELSE ev)
    ELSE [cache |-> c, order |-> order, evicted |-> ev]

\* The insertion number of the next entry stored in c.
NextSeq(c) ==
    IF DOMAIN c = {} THEN 1
    ELSE 1 + (CHOOSE n \in {c[a].seq : a \in DOMAIN c} :
                 \A a \in DOMAIN c : c[a].seq <= n)

\* ClassifyISP, the cache check under the read lock: a hit returns the
\* cached name, a miss goes on to the lookups.
ClassifyCheck(g, ip) ==
    /\ calls[g].pc = "idle"
    /\ IF CacheHit(ip)
       THEN /\ calls' = [calls EXCEPT ![g] =
                           [pc |-> "idle", ip |-> ip, isp |-> cache[ip].isp, src |-> "cache"]]
            /\ UNCHANGED <<misses, lastLookup>>
       ELSE /\ misses < MaxCalls
            /\ misses' = misses + 1
            /\ lastLookup' = (ip :> now) @@ lastLookup
            /\ calls' = [calls EXCEPT ![g] =
                           [pc |-> "lookup", ip |-> ip, isp |-> "", src |-> "none"]]
    /\ UNCHANGED <<cache, cacheOrder, now, lastEvicted>>
    /\ UNCHANGED <<apiVars, schedVars, poolVars, stampVars, probed, loops>>

\* ClassifyISP, the lookups, outside any lock: a failed LookupASN or ASN 0
\* returns "Unknown" at once; otherwise the call holds a name to store.
ClassifyLookup(g) ==
    /\ calls[g].pc = "lookup"
    /\ \E outcome \in LookupOutcomes :
         calls' = [calls EXCEPT ![g] =
                     IF outcome \in {"error", "zero"}
                     THEN [pc |-> "idle", ip |-> calls[g].ip, isp |-> "Unknown",
                           src |-> "failed"]
                     ELSE [pc |-> "store", ip |-> calls[g].ip,
                           isp |-> ResolveName(calls[g].ip), src |-> "none"]]
    /\ UNCHANGED <<cache, cacheOrder, now, misses, lastLookup, lastEvicted>>
    /\ UNCHANGED <<apiVars, schedVars, poolVars, stampVars, probed, loops>>

\* ClassifyISP, under the write lock: the eviction loop, the new entry, the
\* append to the order; the call returns the name.
ClassifyStore(g) ==
    /\ calls[g].pc = "store"
    /\ LET ev == Evict(cache, cacheOrder, lastEvicted)
           entry == [isp |-> calls[g].isp, expiresAt |-> now + cacheTTL,
                     seq |-> NextSeq(ev.cache)]
       IN /\ cache' = (calls[g].ip :> entry) @@ ev.cache
          /\ cacheOrder' = Append(ev.order, calls[g].ip)
          /\ lastEvicted' = ev.evicted
    /\ calls' = [calls EXCEPT ![g].pc = "idle", ![g].src = "dns"]
    /\ UNCHANGED <<now, misses, lastLookup>>
    /\ UNCHANGED <<apiVars, schedVars, poolVars, stampVars, probed, loops>>

\* Classifier.ClearCache
ClearCache ==
    /\ cache # << >>
    /\ cache' = << >>
    /\ cacheOrder' = << >>
    /\ UNCHANGED <<now, calls, misses, lastLookup, lastEvicted>>
    /\ UNCHANGED <<apiVars, schedVars, poolVars, stampVars, probed, loops>>

\* The clock advances.
Tick ==
    /\ now < MaxTime
    /\ now' = now + 1
    /\ UNCHANGED <<cache, cacheOrder, calls, misses, lastLookup, lastEvicted>>
    /\ UNCHANGED <<apiVars, schedVars, poolVars, stampVars, probed, loops>>

NextClassifier ==
    \/ \E g \in Callers, ip \in CacheAddresses : ClassifyCheck(g, ip)
    \/ \E g \in Callers : ClassifyLookup(g)
    \/ \E g \in Callers : ClassifyStore(g)
    \/ ClearCache
    \/ Tick

SpecClassifier == Init /\ [][NextClassifier]_vars

\* ------------------------------------------------------ retention cleanup
\* DeleteExpired with <= in place of <.
ExpiredOnTheLimit(seen, nowDay, maxAgeDays) == seen <= nowDay - maxAgeDays

\* DB.DeleteExpired, the WHERE clause: last_seen < now - maxAgeDays days.
Expired(seen, nowDay, maxAgeDays) == seen < nowDay - maxAgeDays

\* DB.DeleteExpired: the rows it deletes.
ExpiredRows == {id \in DOMAIN endpoints : Expired(lastSeen[id], today, expireDays)}

\* A day passes.
DayPasses ==
    /\ today < MaxDay
    /\ today' = today + 1
    /\ UNCHANGED <<tracer, configVars, lastSeen, webVars, schedVars, cacheVars, poolVars,
                   stampVars, probed, loops>>

\* Handler.Status, or Handler.Register from a registered address:
\* DB.UpdateLastSeen of the row found.
SeenAgain(id) ==
    /\ id \in DOMAIN endpoints
    /\ lastSeen[id] # today
    /\ lastSeen' = [lastSeen EXCEPT ![id] = today]
    /\ UNCHANGED <<tracer, configVars, today, webVars, schedVars, cacheVars, poolVars,
                   stampVars, probed, loops>>

\* Scheduler.runCleanup with the rows DB.DeleteExpired finds.
RetentionCleanup ==
    /\ runCleanup(ExpiredRows)
    /\ loops' = [loops EXCEPT !.cleanups = @ + 1]

NextRetention ==
    \/ DayPasses
    \/ \E ip \in Addresses : Register(ip)
    \/ \E id \in 1..MaxEndpoints : SeenAgain(id)
    \/ RetentionCleanup

SpecRetention == InitRegistered /\ [][NextRetention]_vars

\* ---------------------------------------------------- the ISP configuration
\* The ASNs and display names a configuration file can hold.
ASNs == 1..NumASNs
DisplayNames == ISPs
AskedNames == ISPs \cup {"Other"}

\* The configurations LoadConfig can read: some ASNs, each with a display
\* name and an allowed flag.
Configs ==
    UNION {[S -> [display : DisplayNames, allowed : BOOLEAN]] : S \in SUBSET ASNs}

\* Classifier.IsAllowed: the allowed flag of the first rule with that display
\* name the iteration over the map meets; false if there is none.
IsAllowed(order, ispDisplay) ==
    LET hits == {i \in DOMAIN order : asnConfig[order[i]].display = ispDisplay}
    IN IF hits = {}
       THEN FALSE
       ELSE asnConfig[order[CHOOSE i \in hits : \A j \in hits : i <= j]].allowed

\* Classifier.LoadConfig, called once by main before the server starts.
LoadConfig(config) ==
    /\ asnConfig = << >>
    /\ allowedReply = << >>
    /\ config # << >>
    /\ asnConfig' = config
    /\ UNCHANGED <<tracer, allowedReply, lastSeen, today, webVars, schedVars, cacheVars,
                   poolVars, stampVars, probed, loops>>

\* A call of Classifier.IsAllowed (Handler.Status, Handler.Register); the
\* range over the map visits the rules in some order.
IsAllowedCall(ispDisplay) ==
    /\ \E order \in Orders(DOMAIN asnConfig) :
         allowedReply' = [name |-> ispDisplay, result |-> IsAllowed(order, ispDisplay)]
    /\ UNCHANGED <<tracer, asnConfig, lastSeen, today, webVars, schedVars, cacheVars,
                   poolVars, stampVars, probed, loops>>

NextConfig ==
    \/ \E config \in Configs : LoadConfig(config)
    \/ \E ispDisplay \in AskedNames : IsAllowedCall(ispDisplay)

SpecConfig == Init /\ [][NextConfig]_vars

\* ------------------------------------------------------------ registration
\* The texts net.ParseIP accepts for an IPv4 address, and for which To4 is
\* not nil: dotted decimal ("192.0.2.1") and IPv4-mapped IPv6
\* ("::ffff:192.0.2.1").
Forms == {"dotted", "mapped"}
Texts == [addr : 1..NumRegAddresses, form : Forms]

\* GetClientIP for a direct connection: the dotted form of the remote address.
ClientTexts == {t \in Texts : t.form = "dotted"}

\* net.ParseIP(text).To4(): the IPv4 address a text denotes.
ParseIP(text) == text.addr

\* HashIP: the SHA-256 of the text as given; two texts, two hashes.
HashIP(text) == <<"sha256", text.form, text.addr>>

\* DB.FindByIP on a text: the rows WHERE ip_hash = HashIP(text).
FindByText(text) ==
    {id \in DOMAIN endpoints : HashIP(endpoints[id].ipv4) = HashIP(text)}

\* DB.Create fails when the row breaks UNIQUE(ip_hash).
CreateFails(text) == FindByText(text) # {}

\* The configurations with one rule for each display name.
OneRulePerName ==
    {c \in Configs : /\ DOMAIN c = 1..Cardinality(DisplayNames)
                     /\ \A a, b \in DOMAIN c : c[a].display = c[b].display => a = b}

\* Handler.Register / Handler.AdminAddEndpoint up to the lookup: FindByIP,
\* and for a row found the reply (Register refreshes last_seen first). The
\* server listens once main has loaded the configuration.
RequestLookup(g, kind, text) ==
    /\ asnConfig # << >>
    /\ requests[g].pc = "idle"
    /\ LET found == FindByText(text)
       IN IF found # {}
          THEN LET id == CHOOSE i \in found : TRUE
               IN /\ requests' = [requests EXCEPT ![g] =
                        [pc |-> "idle", kind |-> kind, text |-> text,
                         reply |-> [code |-> 200, id |-> id]]]
                  /\ lastSeen' = IF kind = "register"
                                 THEN [lastSeen EXCEPT ![id] = today]
                                 ELSE lastSeen
          ELSE /\ requests' = [requests EXCEPT ![g] =
                        [pc |-> "create", kind |-> kind, text |-> text,
                         reply |-> << >>]]
               /\ UNCHANGED lastSeen
    /\ UNCHANGED <<tracer, configVars, today, limiterVars, schedVars, cacheVars,
                   poolVars, stampVars, probed, loops>>

\* Handler.Register / Handler.AdminAddEndpoint after the lookup found no row:
\* the ISP, for Register the IsAllowed check, the new id and DB.Create.
RequestCreate(g) ==
    /\ requests[g].pc = "create"
    /\ LET text == requests[g].text
           isp == ISPOf(ParseIP(text))
           done(reply) == [requests EXCEPT ![g].pc = "idle", ![g].reply = reply]
       IN \E order \in Orders(DOMAIN asnConfig) :
            IF requests[g].kind = "register" /\ ~IsAllowed(order, isp)
            THEN /\ requests' = done([code |-> 403, id |-> 0])
                 /\ UNCHANGED <<endpoints, nextId, lastSeen>>
            ELSE IF CreateFails(text)
            THEN /\ requests' = done([code |-> 500, id |-> 0])
                 /\ UNCHANGED <<endpoints, nextId, lastSeen>>
            ELSE /\ requests' = done([code |-> 201, id |-> nextId + 1])
                 /\ nextId' = nextId + 1
                 /\ endpoints' = (nextId + 1 :> NewEndpoint(text, isp)) @@ endpoints
                 /\ lastSeen' = (nextId + 1 :> today) @@ lastSeen
    /\ UNCHANGED <<deleted, events, history, threshold>>
    /\ UNCHANGED cycleVars
    /\ UNCHANGED <<tracer, configVars, today, limiterVars, cacheVars, poolVars,
                   stampVars, probed, loops>>

NextRegistration ==
    \/ \E config \in OneRulePerName : LoadConfig(config)
    \/ \E g \in Callers, text \in ClientTexts : RequestLookup(g, "register", text)
    \/ \E g \in Callers, text \in Texts : RequestLookup(g, "admin", text)
    \/ \E g \in Callers : RequestCreate(g)

SpecRegistration == Init /\ [][NextRegistration]_vars

\* ---------------------------------------------------------- the rate limiter
\* The refill of Allow without its cap.
RefillUncapped(tokens, elapsed) == tokens + elapsed * rate

\* Allow: b.tokens += elapsed * rl.rate, capped at burst.
Refill(tokens, elapsed) ==
    IF tokens + elapsed * rate > burst * TokenUnit
    THEN burst * TokenUnit
    ELSE tokens + elapsed * rate

\* Allow, its periodic cleanup: the buckets that stay.
AfterCleanup(at) ==
    IF at - lastClean > cleanup
    THEN {k \in DOMAIN buckets : ~(at - buckets[k].lastCheck > cleanup)}
    ELSE DOMAIN buckets

\* RateLimiter.Allow(key), under rl.mu.
Allow(key) ==
    LET at == limiterNow
        kept == AfterCleanup(at)
        b == IF key \in kept
             THEN buckets[key]
             ELSE [tokens |-> burst * TokenUnit, lastCheck |-> at]
        filled == Refill(b.tokens, at - b.lastCheck)
        ok == filled >= TokenUnit
        left == IF ok THEN filled - TokenUnit ELSE filled
    IN  /\ lastClean' = IF at - lastClean > cleanup THEN at ELSE lastClean
        /\ buckets' = [k \in kept \cup {key} |->
                          IF k = key THEN [tokens |-> left, lastCheck |-> at]
                          ELSE buckets[k]]
        /\ lastAllow' = [key |-> key, ok |-> ok]
        /\ allowedNow' = [allowedNow EXCEPT ![key] = IF ok THEN @ + 1 ELSE @]
        /\ UNCHANGED <<tracer, limiterNow, requests, configVars, lastSeen, today,
                       schedVars, cacheVars, poolVars, stampVars, probed,
                       loops>>

\* time.Now() moves on between two calls of Allow.
LimiterTick ==
    /\ limiterNow < MaxClock
    /\ limiterNow' = limiterNow + 1
    /\ allowedNow' = [k \in Keys |-> 0]
    /\ UNCHANGED <<tracer, buckets, lastClean, lastAllow, requests, configVars,
                   lastSeen, today, schedVars, cacheVars, poolVars, stampVars,
                   probed, loops>>

NextLimiter ==
    \/ \E key \in Keys : Allow(key)
    \/ LimiterTick

SpecLimiter == Init /\ [][NextLimiter]_vars

\* ------------------------------------------------------------ the traceroute
\* What probeHop can read from the socket after its echo request: nothing
\* before the deadline (or the request could not be sent), or an ICMP message
\* from a peer: an echo reply, time exceeded, destination unreachable, or a
\* message of another type or one that cannot be parsed.
Replies ==
    {[type |-> "none", peer |-> NoHop]} \cup
    {[type |-> t, peer |-> p] :
        t \in {"echoReply", "timeExceeded", "destUnreachable", "other"},
        p \in Hops}

\* probeHop for which only an echo reply reaches the destination.
probeHopEchoOnly(ttl, reply) ==
    [ttl |-> ttl,
     address |-> IF reply.type = "none" THEN NoHop ELSE reply.peer,
     reached |-> reply.type = "echoReply"]

\* Tracer.probeHop: the Hop of one TTL.
probeHop(ttl, reply) ==
    [ttl |-> ttl,
     address |-> IF reply.type = "none" THEN NoHop ELSE reply.peer,
     reached |-> reply.type \in {"echoReply", "destUnreachable"}]

\* The last responding hop when only the first hop that answers is kept.
LastRespondingFirst(last, hop) ==
    IF hop.address # NoHop /\ last = << >> THEN <<hop>> ELSE last

\* Traceroute, `if hop.Address != "" { lastResponding = &hopCopy }`.
LastResponding(last, hop) ==
    IF hop.address # NoHop THEN <<hop>> ELSE last

\* Traceroute up to its loop: the address is parsed and the socket opened
\* (ok), or the call returns an error.
TracerouteStart(ok) ==
    /\ tracer.pc = "idle"
    /\ tracer' = IF ok
                 THEN [pc |-> "probing", ttl |-> 1, hops |-> << >>,
                       replies |-> << >>, lastHop |-> << >>,
                       reached |-> FALSE, error |-> FALSE]
                 ELSE [pc |-> "done", ttl |-> 0, hops |-> << >>,
                       replies |-> << >>, lastHop |-> << >>,
                       reached |-> FALSE, error |-> TRUE]
    /\ UNCHANGED <<schedVars, cacheVars, poolVars, stampVars, probed, loops,
                   configVars, lastSeen, today, webVars>>

\* One iteration of the loop of Traceroute, with the test that ends it.
TracerouteProbe(reply) ==
    /\ tracer.pc = "probing"
    /\ tracer.ttl <= maxHops
    /\ LET hop == probeHop(tracer.ttl, reply)
       IN tracer' = [tracer EXCEPT
                        !.hops = Append(@, hop),
                        !.replies = Append(@, reply),
                        !.lastHop = LastResponding(@, hop),
                        !.reached = hop.reached,
                        !.ttl = IF hop.reached THEN @ ELSE @ + 1,
                        !.pc = IF hop.reached \/ tracer.ttl + 1 > maxHops
                               THEN "done" ELSE "probing"]
    /\ UNCHANGED <<schedVars, cacheVars, poolVars, stampVars, probed, loops,
                   configVars, lastSeen, today, webVars>>

\* Tracer.FindLastRespondingHop, on the result of a finished Traceroute.
FindLastRespondingHop(tr) ==
    IF tr.error \/ tr.lastHop = << >>
    THEN [hopIP |-> NoHop, hopNum |-> 0, reached |-> FALSE]
    ELSE [hopIP |-> tr.lastHop[1].address, hopNum |-> tr.lastHop[1].ttl,
          reached |-> tr.reached]

NextTrace ==
    \/ \E ok \in BOOLEAN : TracerouteStart(ok)
    \/ \E reply \in Replies : TracerouteProbe(reply)

SpecTrace == Init /\ [][NextTrace]_vars

\* ------------------------------------------------- claims on the scheduler
\* Number of rows of an events log with the given type about an endpoint.
EndpointEvents(log, type, id) ==
    Len(SelectSeq(log, LAMBDA r : r.type = type /\ r.endpoint = id))

\* Number of rows of an events log with the given type about an ISP.
ISPEvents(log, type, isp) ==
    Len(SelectSeq(log, LAMBDA r : r.type = type /\ r.isp = isp /\ r.endpoint = 0))

\* The rows a step appends to the events table.
NewRows(old, new) ==
    IF Len(new) >= Len(old) /\ SubSeq(new, 1, Len(old)) = old
    THEN SubSeq(new, Len(old) + 1, Len(new))
    ELSE new

\* A ping cycle has completed and no other has started since: oldOutages and
\* outages are the flags before and after it, events holds its rows.
CycleCompleted == pc = "idle" /\ pingCycleCount > 0

\* C1: a step that takes an endpoint's stored status from up to down appends
\* exactly one `down` event for it, a step that leaves it down appends none,
\* and a step that takes it from down to up appends exactly one `up` event.
C1_TransitionEvents ==
    [][\A id \in DOMAIN endpoints \cap DOMAIN endpoints' :
          LET before == endpoints[id].status
              after == endpoints'[id].status
              rows == NewRows(events, events')
          IN /\ (before = "up" /\ after = "down")
                    => EndpointEvents(rows, "down", id) = 1
             /\ (before = "down" /\ after = "down")
                    => EndpointEvents(rows, "down", id) = 0
             /\ (before = "down" /\ after = "up")
                    => EndpointEvents(rows, "up", id) = 1]_vars

\* C1 witness: the running cycle recorded a `down` event for an endpoint
\* that is now stored as down.
C1_Witness ==
    /\ pc = "probing"
    /\ \E id \in DOMAIN endpoints :
          /\ endpoints[id].status = "down"
          /\ EndpointEvents(events, "down", id) = 1

\* C5: after a completed cycle, an ISP whose flag went from false to true
\* has exactly one `outage` event among the cycle's rows, and an ISP whose
\* flag stayed true has none.
C5_OutageEventOnce ==
    CycleCompleted =>
        \A isp \in ISPs :
            /\ (~MapGet(oldOutages, isp) /\ IsISPOutage(isp))
                   => ISPEvents(events, "outage", isp) = 1
            /\ (MapGet(oldOutages, isp) /\ IsISPOutage(isp))
                   => ISPEvents(events, "outage", isp) = 0

\* C5 witness: a cycle has just flagged Acme and recorded the event.
C5_Witness ==
    /\ CycleCompleted
    /\ ~MapGet(oldOutages, "Acme")
    /\ IsISPOutage("Acme")
    /\ ISPEvents(events, "outage", "Acme") = 1

\* C6: after a completed cycle, an ISP whose flag went from true to false
\* has exactly one `recovery` event among the cycle's rows.
C6_RecoveryEvent ==
    CycleCompleted =>
        \A isp \in ISPs :
            (MapGet(oldOutages, isp) /\ ~IsISPOutage(isp))
                => ISPEvents(events, "recovery", isp) = 1

\* C7: the step that completes a cycle leaves in the outage state exactly
\* the flags of that cycle's analysis of the endpoints table.
C7_OutagesReplaced ==
    [][pingCycleCount' # pingCycleCount =>
          /\ \A isp \in ISPs :
                MapGet(outages', isp) <=> ISPFlagged(endpoints, isp)
          /\ (\E isp \in DOMAIN outages' : outages'[isp])
                <=> (\E isp \in ISPs : ISPFlagged(endpoints, isp))]_vars

\* C7 witness: Acme was flagged by the cycle before and reads as not in
\* outage after the last one.
C7_Witness ==
    /\ CycleCompleted
    /\ MapGet(oldOutages, "Acme")
    /\ ~IsISPOutage("Acme")
    /\ ~HasAnyOutage

\* Number of endpoints of an ISP, and of those in status down.
NumEndpoints(isp) == Cardinality(EndpointsOfISP(endpoints, isp))
NumDown(isp) == DownCount(endpoints, EndpointsOfISP(endpoints, isp))

\* The endpoints of an ISP that are in hop-fallback mode on a hop.
OnHop(isp, hop) ==
    {id \in EndpointsOfISP(endpoints, isp) :
        endpoints[id].useHop /\ endpoints[id].monitoredHop = hop}

\* C2: the step that completes a cycle flags every ISP with at least two
\* endpoints whose down fraction is above the configured outage threshold.
C2_OverConfiguredThreshold ==
    [][pingCycleCount' # pingCycleCount =>
          \A isp \in ISPs :
              (NumEndpoints(isp) >= 2
               /\ 100 * NumDown(isp) > GetOutageThreshold * NumEndpoints(isp))
                  => MapGet(outages', isp)]_vars

\* C3: the step that completes a cycle does not flag an ISP with at least
\* two endpoints, none of them monitoring a hop, whose down fraction equals
\* the configured outage threshold.
C3_StrictAtThreshold ==
    [][pingCycleCount' # pingCycleCount =>
          \A isp \in ISPs :
              (NumEndpoints(isp) >= 2
               /\ 100 * NumDown(isp) = GetOutageThreshold * NumEndpoints(isp)
               /\ \A id \in EndpointsOfISP(endpoints, isp) :
                     endpoints[id].monitoredHop = NoHop)
                  => ~MapGet(outages', isp)]_vars

\* C4: the step that completes a cycle flags every ISP that has at least
\* two endpoints in hop-fallback mode on one hop while no endpoint pointed
\* at that hop is up, whatever the ISP's down fraction.
C4_SharedHopDown ==
    [][pingCycleCount' # pingCycleCount =>
          \A isp \in ISPs, hop \in Hops :
              (Cardinality(OnHop(isp, hop)) >= 2
               /\ \A id \in DOMAIN endpoints :
                     endpoints[id].monitoredHop = hop => endpoints[id].status # "up")
                  => MapGet(outages', isp)]_vars

\* C4 witness: Acme is flagged after a cycle with two of its endpoints down
\* on hop h1, nobody up on h1, and no more than half of its endpoints down.
C4_Witness ==
    /\ CycleCompleted
    /\ Cardinality(OnHop("Acme", "h1")) >= 2
    /\ \A id \in DOMAIN endpoints :
          endpoints[id].monitoredHop = "h1" => endpoints[id].status # "up"
    /\ 2 * NumDown("Acme") <= NumEndpoints("Acme")
    /\ IsISPOutage("Acme")

\* ------------------------------------------------ claims on the classifier
\* The entry of address a is cached and has not expired.
LiveEntry(a) == a \in DOMAIN cache /\ now < cache[a].expiresAt

\* Caller g starts a ClassifyISP call in this step and misses the cache.
Misses(g) == calls[g].pc = "idle" /\ calls'[g].pc = "lookup"

C9_CacheBounded == Cardinality(DOMAIN cache) <= maxCacheSize

\* C9 witness: the cache is full again after the eviction loop made room,
\* while another call is still between its cache check and its insertion.
C9_Witness ==
    /\ Cardinality(DOMAIN cache) = maxCacheSize
    /\ lastEvicted # 0
    /\ \E g \in Callers : calls[g].pc = "store"

\* C10: when a call inserts a new address into a full cache, the entry
\* deleted is the least recently inserted of the cached entries (a refreshed
\* entry counting from its refresh); and a cache hit leaves the eviction
\* order as it is.
C10_EvictsLeastRecentlyInserted ==
    [][\A g \in Callers :
          /\ (calls[g].pc = "store" /\ calls'[g].pc = "idle"
              /\ calls[g].ip \notin DOMAIN cache
              /\ Cardinality(DOMAIN cache) >= maxCacheSize)
                 => \A a \in DOMAIN cache \ DOMAIN cache' :
                       \A b \in DOMAIN cache : cache[a].seq <= cache[b].seq
          /\ (calls[g].pc = "idle" /\ calls'[g].pc = "idle" /\ calls'[g] # calls[g])
                 => cacheOrder' = cacheOrder]_vars

\* Caller g's ClassifyISP call returns in this step.
Returns(g) == calls[g].pc # "idle" /\ calls'[g].pc = "idle"

\* C11: the cache never holds an entry whose ISP name is "Unknown", and a
\* ClassifyISP call that returns "Unknown" leaves the cache as it was.
C11_UnknownNeverCached ==
    [][/\ \A a \in DOMAIN cache' : cache'[a].isp # "Unknown"
       /\ \A g \in Callers :
             (Returns(g) /\ calls'[g].isp = "Unknown") => cache' = cache]_vars

\* ------------------------------------------- claims on the parallel cycle
\* The probes (monitorEndpoint executions) in progress.
InProgress == {w \in DOMAIN workers : workers[w].st = "probing"}

\* Every endpoint loaded for the running cycle has produced its probe result.
AllProbed == jobs = << >> /\ InProgress = {}

\* This step appends to the events, appends to the uptime history, or
\* writes the cycle counter, the last-cycle time or the outage state.
PostProcesses ==
    \/ events' # events /\ events' # << >>
    \/ history' # history /\ history' # << >>
    \/ pingCycleCount' # pingCycleCount
    \/ lastPingTime' # lastPingTime
    \/ outagesCycle' # outagesCycle

C13_BoundedProbes ==
    /\ Cardinality(InProgress) <= PoolSize
    /\ pc = "collecting" => Cardinality(InProgress) <= total

\* C13 witness: all PoolSize workers are probing while an endpoint waits.
C13_Witness ==
    /\ pc = "collecting"
    /\ total > PoolSize
    /\ Cardinality(InProgress) = PoolSize
    /\ jobs # << >>

\* The ids of the endpoints the loop of the running cycle has handled.
ProbedThisCycle ==
    {id \in DOMAIN probed : probed[id].cycle = pingCycleCount + 1}

\* C14: a failed probe or a failed write for one endpoint never aborts the
\* cycle: the cycle ends only when the loop has handled every endpoint it
\* loaded, every endpoint whose status write succeeded has its new status
\* stored, the snapshot of the whole cycle is appended and the outage state is
\* recomputed from the stored table; and the next cycle loads every stored
\* endpoint again, the failed one included.
C14_FailureDoesNotAbortCycle ==
    [][/\ (pc = "probing" /\ pc' = "idle") =>
            /\ Cardinality(ProbedThisCycle) = total
            /\ \A id \in ProbedThisCycle :
                   probed[id].written => endpoints'[id].status = probed[id].status
            /\ NewRows(history, history') =
                   << [total |-> total, up |-> upCount, down |-> downCount] >>
            /\ upCount + downCount = total
            /\ outages' = analyzeISPOutages(endpoints)
       /\ (pc = "idle" /\ pc' = "probing") =>
            {jobs'[i].id : i \in DOMAIN jobs'} = DOMAIN endpoints
      ]_vars

\* A cycle has completed in which an endpoint's probe failed, another
\* endpoint's write failed, and a third iteration came after the failures.
C14_Witness ==
    /\ pc = "idle"
    /\ pingCycleCount > 0
    /\ \E a, b \in DOMAIN probed :
         /\ a < b
         /\ probed[a].cycle = pingCycleCount
         /\ probed[b].cycle = pingCycleCount
         /\ probed[a].failed
         /\ probed[a].status = "down"
         /\ probed[b].written
         /\ probed[b].status = "up"
         /\ endpoints[b].status = "up"
    /\ Len(history) = 1

\* The cancellation signal has been raised.
Cancelled == loops.cancelled \/ loops.stopClosed

\* C15: once the context is cancelled or stopCh is closed, pingLoop calls
\* runPingCycle no more and no cleanup run is started, whatever tick is
\* pending.
C15_NoNewWorkAfterCancel ==
    [][Cancelled =>
         /\ (loops'.ping = "call" => loops.ping = "call")
         /\ loops'.cleanups = loops.cleanups]_vars

\* A step of runPingCycle's loop: the endpoint at the head of jobs is handled.
Probes == pc = "probing" /\ jobs # << >> /\ jobs' = Tail(jobs)

\* What the network answered in that step, and the row stored after it.
Answer == probed'[Head(jobs).id]
Stored == endpoints'[Head(jobs).id]

\* C16: when an endpoint in direct mode gets no reply to its ping and the
\* traceroute does not reach it but finds a last responding hop, the stored
\* row is switched to that hop (address, distance, use_hop) and its status
\* is up if the hop answers its ping and down if it does not.
C16_SwitchToHop ==
    [][(/\ Probes
        /\ ~Head(jobs).useHop
        /\ Answer.received = 0
        /\ ~Answer.trace.reached
        /\ Answer.trace.hopIP # NoHop) =>
           /\ Stored.useHop
           /\ Stored.monitoredHop = Answer.trace.hopIP
           /\ Stored.hopNumber = Answer.trace.hopNum
           /\ Stored.status = IF Answer.hopReceived > 0 THEN "up" ELSE "down"
      ]_vars

\* An endpoint in direct mode was switched to a hop that did not answer, and
\* another to a hop that answered.
C16_Witness ==
    \E id \in DOMAIN probed :
        /\ ~probed[id].old.useHop
        /\ probed[id].received = 0
        /\ ~probed[id].trace.reached
        /\ probed[id].trace.hopIP # NoHop
        /\ probed[id].hopReceived = 0
        /\ endpoints[id].useHop
        /\ endpoints[id].monitoredHop = probed[id].trace.hopIP
        /\ endpoints[id].status = "down"
        /\ \E other \in DOMAIN endpoints :
              endpoints[other].useHop /\ endpoints[other].status = "up"

\* C17: when an endpoint in direct mode gets no reply to its ping but the
\* traceroute reaches it, its stored status is up, its last-ok is the time
\* of this cycle, and no hop is recorded: the row stays in direct mode.
C17_ReachedByTraceroute ==
    [][(/\ Probes
        /\ ~Head(jobs).useHop
        /\ Answer.received = 0
        /\ Answer.trace.reached) =>
           /\ Stored.status = "up"
           /\ Stored.lastOk = Now
           /\ ~Stored.useHop
           /\ Stored.monitoredHop = Head(jobs).monitoredHop
           /\ Stored.hopNumber = Head(jobs).hopNumber
      ]_vars

\* An endpoint that was up a cycle before answered no ping in the second
\* cycle, was reached by the traceroute and is stored up, in direct mode.
C17_Witness ==
    \E id \in DOMAIN probed :
        /\ probed[id].cycle = 2
        /\ probed[id].old.status = "up"
        /\ ~probed[id].old.useHop
        /\ probed[id].received = 0
        /\ probed[id].trace.reached
        /\ endpoints[id].status = "up"
        /\ endpoints[id].lastOk = Earlier + 2
        /\ endpoints[id].monitoredHop = NoHop

\* C18: when the ping of the probe target gets at least one reply, the stored
\* status is up and last-ok is the time of this cycle; and if the status
\* before was up, the step appends no event.
C18_OneReplyIsUp ==
    [][(Probes /\ Answer.received >= 1) =>
           /\ Stored.status = "up"
           /\ Stored.lastOk = Now
           /\ (Head(jobs).status = "up" => events' = events)
      ]_vars

\* An endpoint that was up answered some but not all echo requests in the
\* second cycle and is stored up with the time of that cycle.
C18_Witness ==
    \E id \in DOMAIN probed :
        /\ probed[id].cycle = 2
        /\ probed[id].old.status = "up"
        /\ probed[id].received \in 1..(PingCount - 1)
        /\ endpoints[id].status = "up"
        /\ endpoints[id].lastOk = Earlier + 2

\* Every probe of the step failed: no reply to the ping of the target, and
\* in direct mode the traceroute neither reached the address nor found a hop
\* that answers its ping.
AllProbesFailed ==
    /\ Answer.received = 0
    /\ ~Head(jobs).useHop =>
          /\ ~Answer.trace.reached
          /\ Answer.trace.hopIP # NoHop => Answer.hopReceived = 0

C20_CycleWritesAtomic ==
    /\ pingCycleCount = outagesCycle
    /\ lastPingTime = outagesCycle

\* ------------------------------------------------ claims on a whole cycle
\* The step that completes a ping cycle.
CompletesCycle == pingCycleCount' = pingCycleCount + 1

\* The endpoints stored with status up.
StoredUp == {id \in DOMAIN endpoints : endpoints[id].status = "up"}

\* C22: the step that completes a ping cycle appends exactly one uptime
\* snapshot; its total is the number of endpoints of the cycle, its up count
\* the number of them whose new status is up, and up + down = total.
C22_OneSnapshotPerCycle ==
    [][CompletesCycle =>
         LET rows == NewRows(history, history')
         IN /\ Len(rows) = 1
            /\ rows[1].total = Cardinality(DOMAIN endpoints)
            /\ rows[1].up = Cardinality(StoredUp)
            /\ rows[1].up + rows[1].down = rows[1].total
      ]_vars

\* The second cycle has completed over three endpoints, some up, some not.
C22_Witness ==
    /\ pc = "idle"
    /\ pingCycleCount = 2
    /\ Len(history) = 1
    /\ history[1].total = 3
    /\ history[1].up >= 1
    /\ history[1].down >= 1
    /\ StoredUp # {}
    /\ StoredUp # DOMAIN endpoints

\* ------------------------------------------------ claims on the retention
\* A step that is a run of runCleanup.
CleanupRuns == loops'.cleanups = loops.cleanups + 1

\* C23: a cleanup run deletes exactly the endpoints whose last-seen is older
\* than the expiry window and changes no other row, no other table and no
\* last-seen; an endpoint seen within the window is not deleted.
C23_CleanupDeletesExpired ==
    [][CleanupRuns =>
         /\ DOMAIN endpoints' =
               {id \in DOMAIN endpoints : today - lastSeen[id] <= expireDays}
         /\ \A id \in DOMAIN endpoints' :
               /\ endpoints'[id] = endpoints[id]
               /\ lastSeen'[id] = lastSeen[id]
         /\ UNCHANGED <<events, history, threshold, outages, pingCycleCount>>
      ]_vars

\* Two cleanup runs have happened; an endpoint that was seen again on the way
\* is still stored on the last day, another that never was is gone.
C23_Witness ==
    /\ loops.cleanups = 2
    /\ today = MaxDay
    /\ \E kept \in DOMAIN endpoints :
          /\ lastSeen[kept] > 0
          /\ today - lastSeen[kept] = expireDays
    /\ Cardinality(DOMAIN endpoints) < nextId

\* --------------------------------------------- claims on the registration
\* C24: at most one endpoint is stored for an IPv4 address.
C24_OneEndpointPerAddress ==
    \A a, b \in DOMAIN endpoints :
        ParseIP(endpoints[a].ipv4) = ParseIP(endpoints[b].ipv4) => a = b

\* ------------------------------------------- claims on the status values
\* This step is the iteration of the cycle's loop for endpoint id.
ProbesEndpoint(id) ==
    pc = "probing" /\ jobs # << >> /\ jobs' = Tail(jobs) /\ Head(jobs).id = id

\* C38: an endpoint is created with status unknown; the step of a cycle that
\* persists its probe result stores up, down or unreachable; and a status
\* other than unknown never goes back to unknown.
C38_StatusNeverBackToUnknown ==
    [][/\ \A id \in DOMAIN endpoints' \ DOMAIN endpoints :
             endpoints'[id].status = "unknown"
       /\ \A id \in DOMAIN endpoints \cap DOMAIN endpoints' :
             /\ ProbesEndpoint(id) =>
                    endpoints'[id].status \in {"up", "down", "unreachable"}
             /\ endpoints[id].status # "unknown" =>
                    endpoints'[id].status \in {"up", "down", "unreachable"}]_vars

\* After two cycles an endpoint that went down has come back up, while an
\* endpoint registered since the last cycle is still unknown.
C38_Witness ==
    /\ pingCycleCount >= 2
    /\ \E id, new \in DOMAIN endpoints :
          /\ endpoints[id].status = "up"
          /\ EndpointEvents(events, "up", id) = 1
          /\ endpoints[new].status = "unknown"

\* ---------------------------------------------- claims on the dashboard
\* C39: between cycles, Dashboard reports likely_outage = true only if the
\* scheduler's outage state flags at least one ISP; an ISP with a single
\* endpoint that is down does not make it true.
C39_DashboardAgreesWithScheduler ==
    (pc = "idle" /\ pingCycleCount >= 1) => (likelyOutage => HasAnyOutage)

\* ------------------------------------ claims on the insertion-order list
\* C37: the insertion-order list of the classifier holds every cached
\* address exactly once and nothing else: it is as long as the cache has
\* entries, and never longer than the cache capacity.
C37_OrderListsCache ==
    /\ {cacheOrder[i] : i \in DOMAIN cacheOrder} = DOMAIN cache
    /\ \A i, j \in DOMAIN cacheOrder : cacheOrder[i] = cacheOrder[j] => i = j
    /\ Len(cacheOrder) = Cardinality(DOMAIN cache)
    /\ Len(cacheOrder) <= maxCacheSize

\* --------------------------------------- claims on the end of an outage
\* C36: a ping cycle tick clears the outage flag of an ISP that has no
\* endpoint left: when runPingCycle, called on a tick, finds no endpoint of
\* the ISP in the table, the ISP is not flagged once the call is over,
\* whether the call ran a whole cycle or returned at once on an empty table.
C36_FlagClearedWithoutEndpoints ==
    [][\A isp \in ISPs :
          (/\ EndpointsOfISP(endpoints, isp) = {}
           /\ \/ pingCycleCount' # pingCycleCount
              \/ /\ loops.ping = "call"
                 /\ loops'.ping = "select"
                 /\ pingCycleCount = loops.entry)
              => ~MapGet(outages', isp)]_vars

\* ------------------------------- claims on the table the analysis reads
\* C35: the outage analysis of a cycle reads the endpoints the cycle probed,
\* with the statuses the cycle found: when the cycle ends, the table that
\* analyzeISPOutages loads has as many rows as the cycle probed, as many of
\* them up as the cycle counted up, and as many not up as it counted down.
C35_AnalysisOverProbedSet ==
    [][pingCycleCount' # pingCycleCount =>
          /\ Cardinality(DOMAIN endpoints) = total
          /\ Cardinality(StoredUp) = upCount
          /\ Cardinality(DOMAIN endpoints \ StoredUp) = downCount]_vars

\* ------------------------------------------------ claims on the traceroute
\* The replies that end a traceroute.
Terminal(reply) == reply.type \in {"echoReply", "destUnreachable"}

\* C33: Traceroute probes the TTLs 1, 2, ... in this order, once each; it
\* goes on after a TTL with no reply or a time-exceeded reply, stops with
\* reached = true at the first TTL answered by an echo reply or a destination
\* unreachable, and otherwise ends after maxHops probes with reached = false.
C33_TracerouteLoop ==
    LET n == Len(tracer.hops)
    IN /\ Len(tracer.replies) = n
       /\ n <= maxHops
       /\ \A i \in 1..n : tracer.hops[i].ttl = i
       /\ \A i \in 1..(n - 1) : ~Terminal(tracer.replies[i])
       /\ tracer.pc = "probing" =>
              /\ tracer.ttl = n + 1
              /\ n < maxHops
              /\ n > 0 => ~Terminal(tracer.replies[n])
       /\ (tracer.pc = "done" /\ ~tracer.error) =>
              /\ n >= 1
              /\ tracer.reached = Terminal(tracer.replies[n])
              /\ ~tracer.reached => n = maxHops

\* A traceroute got no reply at TTL 1, a time-exceeded reply at TTL 2 and was
\* ended by a destination unreachable at TTL 3.
C33_Witness ==
    /\ tracer.pc = "done"
    /\ Len(tracer.replies) = 3
    /\ tracer.replies[1].type = "none"
    /\ tracer.replies[2].type = "timeExceeded"
    /\ tracer.replies[3].type = "destUnreachable"
    /\ tracer.reached

\* The TTLs of a traceroute that got a reply.
Responding == {i \in DOMAIN tracer.replies : tracer.replies[i].type # "none"}

\* C34: the last responding hop of a traceroute is the hop of the greatest
\* TTL probed so far that got a reply, and there is none exactly when no
\* probe got a reply; FindLastRespondingHop returns reached = true only with
\* a hop address and a hop distance of at least 1.
C34_LastRespondingHop ==
    /\ (tracer.lastHop = << >>) <=> (Responding = {})
    /\ tracer.lastHop # << >> =>
           /\ tracer.lastHop[1].ttl \in Responding
           /\ \A i \in Responding : i <= tracer.lastHop[1].ttl
           /\ tracer.lastHop[1].address = tracer.replies[tracer.lastHop[1].ttl].peer
    /\ tracer.pc = "done" =>
           LET r == FindLastRespondingHop(tracer)
           IN /\ r.reached => (r.hopIP # NoHop /\ r.hopNum >= 1)
              /\ tracer.lastHop # << >> =>
                     (r.hopIP = tracer.lastHop[1].address
                      /\ r.hopNum = tracer.lastHop[1].ttl
                      /\ r.reached = tracer.reached)
              /\ tracer.lastHop = << >> => (r.hopIP = NoHop /\ r.hopNum = 0)

\* A traceroute ended without reaching the destination: hop 1 answered, hop
\* 2 answered from another address, TTL 3 got no reply; the last responding
\* hop is hop 2.
C34_Witness ==
    /\ tracer.pc = "done"
    /\ Len(tracer.replies) = 3
    /\ tracer.replies[1] = [type |-> "timeExceeded", peer |-> "h1"]
    /\ tracer.replies[2] = [type |-> "timeExceeded", peer |-> "h2"]
    /\ tracer.replies[3].type = "none"
    /\ FindLastRespondingHop(tracer) = [hopIP |-> "h2", hopNum |-> 2, reached |-> FALSE]

\* ------------------------------ claims on the jobs of a parallel cycle
\* The endpoints of the running cycle that are not collected yet: waiting in
\* the jobs channel, being probed by a worker, or waiting in the results
\* channel.
PipelineIds ==
    {jobs[i].id : i \in DOMAIN jobs}
    \cup {workers[w].job[1].id : w \in InProgress}
    \cup {results[i].endpoint.id : i \in DOMAIN results}
PipelineSize == Len(jobs) + Cardinality(InProgress) + Len(results)

\* The stored row of an endpoint, as ListAll returns it.
StoredRow(id) == [id |-> id] @@ endpoints[id]

\* No endpoint is twice on its way, none is lost, and every job and result
\* is the row of its endpoint as the cycle loaded it.
PipelineSound ==
    pc = "collecting" =>
        /\ Cardinality(PipelineIds) = PipelineSize
        /\ PipelineSize + upCount + downCount = total
        /\ \A i \in DOMAIN jobs : jobs[i] = StoredRow(jobs[i].id)
        /\ \A w \in InProgress : workers[w].job[1] = StoredRow(workers[w].job[1].id)
        /\ \A i \in DOMAIN results :
              /\ results[i].endpoint = StoredRow(results[i].endpoint.id)
              /\ results[i].oldStatus = endpoints[results[i].endpoint.id].status

\* A cycle starts with every loaded endpoint on its way once; no step puts
\* an endpoint on its way again; a worker that ends a probe sends the result
\* of the endpoint it took, with that endpoint's status from before the
\* cycle; and the cycle ends when no endpoint is left on its way.
PipelineStep ==
    /\ (pc = "idle" /\ pc' = "collecting") =>
           (PipelineIds' = DOMAIN endpoints /\ PipelineSize' = total')
    /\ (pc = "collecting" /\ pc' = "collecting") =>
           /\ PipelineIds' \subseteq PipelineIds
           /\ \A w \in DOMAIN workers :
                 (workers[w].st = "probing" /\ workers'[w].st # "probing") =>
                     (/\ Len(results') = Len(results) + 1
                      /\ results'[Len(results')].endpoint = workers[w].job[1]
                      /\ results'[Len(results')].oldStatus = workers[w].job[1].status)
    /\ (pc = "collecting" /\ pc' = "idle") =>
           (PipelineSize = 0 /\ upCount + downCount = total)

\* C32: every endpoint loaded by a cycle is taken by exactly one worker and
\* gives exactly one result, with its own status from before the cycle: no
\* endpoint is skipped, probed twice in a cycle, or given the result of
\* another endpoint.
C32_OneResultPerEndpoint == []PipelineSound /\ [][PipelineStep]_vars

\* Two workers are probing two different endpoints while the result of a
\* third waits to be collected.
C32_Witness ==
    /\ pc = "collecting"
    /\ total = MaxEndpoints
    /\ Cardinality(InProgress) = PoolSize
    /\ Len(results) = 1
    /\ jobs = << >>

\* ---------------------------------- claims on the end of a parallel cycle
\* C31: every ping cycle that starts ends, given that every probe returns;
\* and when it ends, the jobs channel is empty, the results channel is
\* closed and empty, and every worker of the cycle has exited.
C31_CycleTerminates ==
    /\ (pc = "collecting") ~> (pc = "idle")
    /\ [][pingCycleCount' # pingCycleCount =>
             /\ jobs = << >>
             /\ results = << >>
             /\ workers # << >>
             /\ \A w \in DOMAIN workers : workers[w].st = "done"]_vars

\* The third cycle over three endpoints, more than the pool has workers, has
\* ended.
C31_Witness ==
    /\ pc = "idle"
    /\ pingCycleCount = MaxCycles
    /\ Cardinality(DOMAIN endpoints) = MaxEndpoints
    /\ MaxEndpoints > PoolSize
    /\ Len(history) = 1

\* ------------------------------------------- claims on the last-ok time
\* C30: a step changes the stored last-ok time of an endpoint only when it
\* stores the status up; when the status it stores is down or unreachable,
\* the last-ok time stored before is still there.
C30_LastOkOnlyWhenUp ==
    [][\A id \in DOMAIN endpoints \cap DOMAIN endpoints' :
          /\ endpoints'[id].lastOk # endpoints[id].lastOk
                 => endpoints'[id].status = "up"
          /\ (Probes /\ id = Head(jobs).id
                     /\ endpoints'[id].status \in {"down", "unreachable"})
                 => endpoints'[id].lastOk = Head(jobs).lastOk]_vars

\* An endpoint that was up in the first cycle failed every probe of the
\* second: it is stored down with the last-ok time of the first cycle.
C30_Witness ==
    \E id \in DOMAIN probed :
        /\ probed[id].cycle = 2
        /\ probed[id].old.status = "up"
        /\ probed[id].old.lastOk = Earlier + 1
        /\ probed[id].received = 0
        /\ endpoints[id].status = "down"
        /\ endpoints[id].lastOk = Earlier + 1

\* ------------------------------------------ claims on the hop-fallback mode
\* C28: for an endpoint that is in hop-fallback mode when the cycle reaches
\* it, the ping goes to the stored monitored hop, not to the endpoint's own
\* address; if it gets no reply, no traceroute is run and the stored status
\* is down.
C28_HopModePingsHop ==
    [][(Probes /\ Head(jobs).useHop) =>
           /\ Answer.target.kind = "hop"
           /\ Answer.target.addr = Head(jobs).monitoredHop
           /\ Answer.target.addr \in Hops
           /\ Answer.received = 0 =>
                  /\ ~Answer.traced
                  /\ Stored.status = "down"
                  /\ Stored.monitoredHop = Head(jobs).monitoredHop
      ]_vars

\* An endpoint switched to a hop in the first cycle got no reply from that
\* hop in the second cycle and is stored down.
C28_Witness ==
    \E id \in DOMAIN probed :
        /\ probed[id].cycle = 2
        /\ probed[id].old.useHop
        /\ probed[id].old.status = "up"
        /\ probed[id].target = [kind |-> "hop", addr |-> probed[id].old.monitoredHop]
        /\ probed[id].received = 0
        /\ ~probed[id].traced
        /\ endpoints[id].status = "down"

\* C29: hop-fallback mode is sticky: no step clears the use-hop flag of a
\* stored endpoint or changes the hop it monitors, so that the probe target
\* of the endpoint stays the hop, also when its own address answers again.
C29_HopModeSticky ==
    [][\A id \in DOMAIN endpoints \cap DOMAIN endpoints' :
          endpoints[id].useHop =>
              /\ endpoints'[id].useHop
              /\ endpoints'[id].monitoredHop = endpoints[id].monitoredHop
              /\ endpoints'[id].hopNumber = endpoints[id].hopNumber
              /\ TargetIP(endpoints'[id]).kind = "hop"]_vars

\* An endpoint switched to a hop in the first cycle was probed again in the
\* second, when the hop did not answer and a traceroute would have reached
\* its own address: it is still in hop-fallback mode on the same hop.
C29_Witness ==
    \E id \in DOMAIN probed :
        /\ probed[id].cycle = 2
        /\ probed[id].old.useHop
        /\ probed[id].received = 0
        /\ probed[id].trace.reached
        /\ endpoints[id].useHop
        /\ endpoints[id].monitoredHop = probed[id].old.monitoredHop
        /\ endpoints[id].monitoredHop # probed[id].trace.hopIP

\* --------------------------------------- claims on the status-change events
\* The events of type down or up a step appends about an endpoint.
StatusRows(id) ==
    EndpointEvents(NewRows(events, events'), "down", id)
    + EndpointEvents(NewRows(events, events'), "up", id)

\* C27: a step of a cycle that changes the stored status of an endpoint from
\* a status other than unknown appends exactly one down or up event about
\* it; a step that takes the endpoint out of unknown, or that leaves its
\* status as it was, appends none about it.
C27_EventOnEveryChange ==
    [][\A id \in DOMAIN endpoints \cap DOMAIN endpoints' :
          LET before == endpoints[id].status
              after == endpoints'[id].status
          IN /\ (before # after /\ before # "unknown") => StatusRows(id) = 1
             /\ (before = after \/ before = "unknown") => StatusRows(id) = 0]_vars

\* ---------------------------------------- claims on the flagging of an ISP
\* C26: the step that completes a cycle flags an ISP only if the ISP has at
\* least two endpoints and either its down fraction is above the outage
\* threshold or at least two of its endpoints monitor one hop while every
\* endpoint pointed at that hop (at least two) is not up; a hop monitored by
\* one endpoint of the ISP does not get the ISP flagged.
C26_FlaggedOnlyOnEvidence ==
    [][pingCycleCount' # pingCycleCount =>
          \A isp \in ISPs :
              MapGet(outages', isp) =>
                  /\ NumEndpoints(isp) >= 2
                  /\ \/ 100 * NumDown(isp) > GetOutageThreshold * NumEndpoints(isp)
                     \/ \E hop \in Hops : /\ Cardinality(OnHop(isp, hop)) >= 2
                                          /\ HopAllDown(endpoints, hop)]_vars

\* ------------------------------------------- claims on the rate limiter
\* The tokens of every bucket lie between 0 and burst.
TokensInRange ==
    \A k \in DOMAIN buckets :
        /\ buckets[k].tokens >= 0
        /\ buckets[k].tokens <= burst * TokenUnit

\* While time stands still at most burst calls of a key are allowed; after
\* burst allowed calls the bucket is below one token at the present time, so
\* that Allow refuses the next call.
BurstThenRefused ==
    \A k \in Keys :
        /\ allowedNow[k] <= burst
        /\ allowedNow[k] = burst =>
               /\ k \in DOMAIN buckets
               /\ buckets[k].lastCheck = limiterNow
               /\ buckets[k].tokens < TokenUnit

\* A step that changes the bucket of a key is a call of Allow for that key.
KeysIndependent ==
    \A k \in DOMAIN buckets :
        (k \in DOMAIN buckets' /\ buckets'[k] # buckets[k]) => lastAllow'.key = k

\* C25: every bucket always holds between 0 and burst tokens; with no time
\* elapsing at most burst consecutive calls of a key are allowed and the next
\* is refused; a call of one key leaves the tokens of every other key alone.
C25_BucketWithinBurst ==
    /\ [](TokensInRange /\ BurstThenRefused)
    /\ [][KeysIndependent]_vars

\* A key has used its whole burst and its next call was refused, while the
\* other key, served earlier, still has its tokens.
C25_Witness ==
    /\ allowedNow["k1"] = burst
    /\ lastAllow = [key |-> "k1", ok |-> FALSE]
    /\ "k2" \in DOMAIN buckets
    /\ buckets["k2"].tokens = (burst - 1) * TokenUnit
    /\ limiterNow > 0

\* ------------------------------------------- claims on the configuration
\* C21: IsAllowed(name) answers true exactly when some configured rule has
\* the display name `name` and is marked allowed.
C21_AllowedIffSomeRule ==
    allowedReply # << >> =>
        (allowedReply.result <=>
            \E asn \in DOMAIN asnConfig :
                /\ asnConfig[asn].display = allowedReply.name
                /\ asnConfig[asn].allowed)

====
